---- MODULE Spec2Model ----
(***************************************************************************)
(* Paged KV cache manager with prefix reuse (max/pipelines/kv_cache).      *)
(*                                                                         *)
(* The state is that of one KVCacheManager with its PrefixCache, the radix *)
(* trie, the block free set and the per-sequence PagedCacheMetadata.  Each *)
(* public operation (claim, external_claim, fetch, step, release) is one   *)
(* action.  An operation that raises leaves the state exactly as the code  *)
(* has mutated it up to the raise; the kind of error is kept in last.err.  *)
(***************************************************************************)
EXTENDS Integers, Sequences, FiniteSets, TLC

VARIABLE page_size   \* KVCacheParams.page_size, fixed at construction

(* ------------------------------ bounds -------------------------------- *)
PageSize == 2
NumBlocks == 2
MaxBatchSize == 2
MaxSeqLen == 4
MaxNumSteps == 2
MaxOps == 5

\* the longest multi-step episode
LongSteps == 3

\* a larger pool, and the page sizes a manager is constructed with
WideBlocks == 3
PageSizes == {1, 2, 3}

SeqIds == 0 .. (MaxBatchSize - 1)
WideBlockIds == 0 .. (WideBlocks - 1)
BlockIds == 0 .. (NumBlocks - 1)

(* ------------------------------ helpers ------------------------------- *)
Min(a, b) == IF a <= b THEN a ELSE b

Max(a, b) == IF a >= b THEN a ELSE b

\* Python slice s[lo:hi] of a list (indices clipped to the list).
Slice(s, lo, hi) ==
  LET l == Max(0, lo)
      h == Min(Len(s), hi)
  IN IF l >= h THEN << >> ELSE SubSeq(s, l + 1, h)

Range(s) == {s[i] : i \in 1 .. Len(s)}

\* All sequences over S with length in lo..hi.
SeqsOf(S, lo, hi) == UNION {[1 .. n -> S] : n \in lo .. hi}

\* dict update / delete
Put(f, k, v) == [x \in (DOMAIN f) \cup {k} |-> IF x = k THEN v ELSE f[x]]

Del(f, k) == [x \in (DOMAIN f) \ {k} |-> f[x]]

EmptyMap == [x \in {} |-> 0]

IsPrefix(p, q) == Len(p) <= Len(q) /\ SubSeq(q, 1, Len(p)) = p

\* ceildiv(n, d)
ceildiv(n, d) == (n \div d) + (IF n % d # 0 THEN 1 ELSE 0)

\* a local variable: v is evaluated once and F continues with its value
Let(v, F(_)) == CHOOSE r \in {F(x) : x \in {v}} : TRUE

\* a call that may raise: w is evaluated once; an error it carries propagates,
\* otherwise F continues with it
Then(w, F(_)) ==
  CHOOSE r \in {IF x.err # "none" THEN x ELSE F(x) : x \in {w}} : TRUE

(* ----------------------- PagedCacheMetadata --------------------------- *)
\* PagedCacheMetadata.__init__
NewMetadata ==
  [committed_idx |-> 0, cached_idx |-> 0, inflight_idx |-> 0, seq_len |-> 0,
   blocks |-> << >>, tokens |-> [i \in 1 .. MaxSeqLen |-> 0]]

committed_blocks(d) == Slice(d.blocks, 0, d.committed_idx \div page_size)

uncommitted_blocks_all(d) == d.blocks

uncommitted_blocks_whole(d) ==
  Slice(d.blocks, d.committed_idx \div page_size, d.cached_idx \div page_size)

uncommitted_blocks(d) == Slice(d.blocks, d.committed_idx \div page_size, d.seq_len)

committed_tokens(d) == Slice(d.tokens, 0, d.committed_idx)

uncached_tokens(d) == Slice(d.tokens, d.cached_idx, d.seq_len)

prompt_tokens(d) == Slice(d.tokens, d.cached_idx, d.inflight_idx)

inflight_tokens(d) == Slice(d.tokens, d.inflight_idx, d.seq_len)

committable_tokens_aligned(d) ==
  Slice(d.tokens, d.committed_idx, d.inflight_idx - (d.inflight_idx % page_size))

committable_blocks_aligned(d) ==
  Slice(d.blocks, d.committed_idx \div page_size, d.inflight_idx \div page_size)

committable_tokens(d) == Slice(d.tokens, d.committed_idx, d.inflight_idx)

committable_blocks(d) ==
  Slice(d.blocks, d.committed_idx \div page_size, ceildiv(d.inflight_idx, page_size))

\* PagedCacheMetadata._validate_indices: TRUE iff no assertion fails.
validate_indices(d) ==
  /\ 0 <= d.committed_idx
  /\ d.committed_idx <= d.cached_idx
  /\ d.cached_idx <= d.inflight_idx
  /\ d.inflight_idx <= d.seq_len
  /\ d.seq_len <= Len(d.tokens)
  /\ d.committed_idx % page_size = 0

\* numpy slice assignment tokens[lo:hi] = vals; the result is "bad" when the
\* value cannot be broadcast into the (clipped) slice.
CanAssign(toks, lo, hi, vals) ==
  LET n == Len(Slice(toks, lo, hi))
  IN Len(vals) = n \/ (Len(vals) = 1)

AssignSlice(toks, lo, hi, vals) ==
  [i \in 1 .. Len(toks) |->
     IF i > lo /\ i <= Min(hi, Len(toks))
       THEN (IF Len(vals) = 1 THEN vals[1] ELSE vals[i - lo])
       ELSE toks[i]]

\* PagedCacheMetadata.fetch: returns [d |-> metadata, err |-> kind]
Meta_fetch(d, prompt, num_steps) ==
  IF ~validate_indices(d) THEN [d |-> d, err |-> "Assertion"]
  ELSE IF Len(prompt_tokens(d)) # 0 \/ Len(inflight_tokens(d)) # 0 \/ Len(prompt) = 0
    THEN [d |-> d, err |-> "Protocol"]
  ELSE
    LET d1 == [d EXCEPT !.inflight_idx = @ + Len(prompt),
                        !.seq_len = @ + Len(prompt) + (num_steps - 1)]
    IN IF ~CanAssign(d1.tokens, d1.cached_idx, d1.inflight_idx, prompt)
         THEN [d |-> d1, err |-> "Capacity"]
         ELSE LET d2 == [d1 EXCEPT !.tokens =
                           AssignSlice(@, d1.cached_idx, d1.inflight_idx, prompt)]
              IN [d |-> d2,
                  err |-> IF validate_indices(d2) THEN "none" ELSE "Capacity"]

\* a step that keeps the last tokens of the step instead of the first ones
Meta_step_keeps_last(d, new_tokens) ==
  IF ~validate_indices(d) THEN [d |-> d, err |-> "Assertion"]
  ELSE IF Len(prompt_tokens(d)) = 0 THEN [d |-> d, err |-> "Protocol"]
  ELSE IF Len(inflight_tokens(d)) # Len(new_tokens) - 1
    THEN [d |-> d, err |-> "Protocol"]
  ELSE
    LET d1 == [d EXCEPT !.tokens =
                 AssignSlice(@, d.inflight_idx, d.seq_len,
                             Slice(new_tokens, 1, Len(new_tokens))),
                        !.cached_idx = d.seq_len,
                        !.inflight_idx = d.seq_len]
    IN [d |-> d1, err |-> IF validate_indices(d1) THEN "none" ELSE "Assertion"]

\* PagedCacheMetadata.step
Meta_step(d, new_tokens) ==
  IF ~validate_indices(d) THEN [d |-> d, err |-> "Assertion"]
  ELSE IF Len(prompt_tokens(d)) = 0 THEN [d |-> d, err |-> "Protocol"]
  ELSE IF Len(inflight_tokens(d)) # Len(new_tokens) - 1
    THEN [d |-> d, err |-> "Protocol"]
  ELSE
    LET d1 == [d EXCEPT !.tokens =
                 AssignSlice(@, d.inflight_idx, d.seq_len,
                             Slice(new_tokens, 0, Len(new_tokens) - 1)),
                        !.cached_idx = d.seq_len,
                        !.inflight_idx = d.seq_len]
    IN [d |-> d1, err |-> IF validate_indices(d1) THEN "none" ELSE "Assertion"]

(* ------------------------------ RadixTrie ----------------------------- *)
\* The trie is a map from a node's path (the tokens read from the root to the
\* node, a whole number of pages) to the node record
\*   [block: the block holding the node's page, seqs: the active sequences
\*    using the node (refcount = Cardinality(seqs)), tick: last-use time].
\* The root is the empty path and carries no block.
Root == << >>

refcount(t, p) == Cardinality(t[p].seqs)

Children(t, n) ==
  {p \in DOMAIN t : Len(p) = Len(n) + page_size /\ IsPrefix(n, p)}

get_all_blocks(t) == {t[p].block : p \in DOMAIN t}

\* number of whole pages of tokens matched greedily below node
RECURSIVE MatchPages(_, _, _)
MatchPages(t, tokens, node) ==
  IF Len(tokens) < page_size THEN 0
  ELSE LET child == node \o SubSeq(tokens, 1, page_size)
       IN IF child \in DOMAIN t
            THEN 1 + MatchPages(t, Slice(tokens, page_size, Len(tokens)), child)
            ELSE 0

\* RadixTrie.match_prefix(tokens, node) -> (deepest node, blocks on the path)
match_prefix(t, tokens, node) ==
  LET k == MatchPages(t, tokens, node)
  IN [node |-> node \o Slice(tokens, 0, k * page_size),
      blocks |-> [i \in 1 .. k |-> t[node \o SubSeq(tokens, 1, i * page_size)].block]]

insert_replaces(t, tokens, blocks, node, now) ==
  LET n == Len(tokens) \div page_size
      newp == {node \o SubSeq(tokens, 1, i * page_size) : i \in 1 .. n}
  IN [trie |-> [p \in (DOMAIN t) \cup newp |->
                  IF p \notin newp THEN t[p]
                  ELSE [block |-> blocks[(Len(p) - Len(node)) \div page_size],
                        seqs |-> IF p \in DOMAIN t THEN t[p].seqs ELSE {},
                        tick |-> now]],
      node |-> node \o tokens]

\* an insert into children kept by first token: the new page takes the place
\* of a sibling page that begins with the same token, subtree included
insert_by_first_token(t, tokens, blocks, node, now) ==
  LET n == Len(tokens) \div page_size
      newp == {node \o SubSeq(tokens, 1, i * page_size) : i \in 1 .. n}
      gone == {p \in DOMAIN t :
                 \E q \in newp \ DOMAIN t :
                   /\ Len(p) >= Len(q)
                   /\ SubSeq(p, 1, Len(q) - page_size + 1)
                        = SubSeq(q, 1, Len(q) - page_size + 1)
                   /\ SubSeq(p, 1, Len(q)) # q}
  IN [trie |-> [p \in ((DOMAIN t) \ gone) \cup newp |->
                  IF p \in DOMAIN t THEN t[p]
                  ELSE [block |-> blocks[(Len(p) - Len(node)) \div page_size],
                        seqs |-> {}, tick |-> now]],
      node |-> node \o tokens]

\* RadixTrie.insert(tokens, blocks, node) -> deepest node; an existing edge is
\* kept with its own block.
insert(t, tokens, blocks, node, now) ==
  LET n == Len(tokens) \div page_size
      newp == {node \o SubSeq(tokens, 1, i * page_size) : i \in 1 .. n}
  IN [trie |-> [p \in (DOMAIN t) \cup newp |->
                  IF p \in DOMAIN t THEN t[p]
                  ELSE [block |-> blocks[(Len(p) - Len(node)) \div page_size],
                        seqs |-> {}, tick |-> now]],
      node |-> node \o tokens]

\* RadixTrie.mark_in_use_by(node, seq_id): once per (seq, node on path)
mark_in_use_by(t, node, seq_id, now) ==
  [p \in DOMAIN t |->
     IF IsPrefix(p, node)
       THEN [t[p] EXCEPT !.seqs = @ \cup {seq_id}, !.tick = now]
       ELSE t[p]]

\* RadixTrie.mark_not_in_use_by(node, seq_id)
mark_not_in_use_by(t, node, seq_id) ==
  [p \in DOMAIN t |->
     IF IsPrefix(p, node) THEN [t[p] EXCEPT !.seqs = @ \ {seq_id}] ELSE t[p]]

\* A node is evictable iff its refcount is zero and it has no non-evictable
\* descendant.
Evictable(t, p) ==
  \A q \in DOMAIN t : IsPrefix(p, q) => t[q].seqs = {}

get_evictable_blocks(t) == {t[p].block : p \in {q \in DOMAIN t : Evictable(t, q)}}

EvictCandidates(t) ==
  {p \in DOMAIN t : Children(t, p) = {} /\ t[p].seqs = {}}

\* least recently used candidate, lowest block id among equally stale ones
Victim(t) ==
  CHOOSE p \in EvictCandidates(t) :
    \A q \in EvictCandidates(t) :
      \/ t[p].tick < t[q].tick
      \/ (t[p].tick = t[q].tick /\ t[p].block <= t[q].block)

\* RadixTrie.evict_blocks(desired_num_evicted) -> (trie, evicted block ids)
RECURSIVE trie_evict_blocks(_, _)
trie_evict_blocks(t, desired) ==
  IF desired <= 0 \/ EvictCandidates(t) = {}
    THEN [trie |-> t, blocks |-> << >>]
    ELSE Let(Victim(t), LAMBDA v :
           Let(Del(t, v), LAMBDA t1 :
             Let(trie_evict_blocks(t1, desired - 1), LAMBDA r :
               [trie |-> r.trie, blocks |-> <<t[v].block>> \o r.blocks])))

\* common prefix length of two token lists
RECURSIVE CommonPrefixLen(_, _)
CommonPrefixLen(a, b) ==
  IF Len(a) = 0 \/ Len(b) = 0 \/ a[1] # b[1] THEN 0
  ELSE 1 + CommonPrefixLen(Tail(a), Tail(b))

EdgeOf(p) == SubSeq(p, Len(p) - page_size + 1, Len(p))

\* TrieNode.find_block_with_largest_common_prefix(tokens): the child of node
\* whose edge shares the longest prefix k with tokens, 0 < k < page_size
\* (the lowest block id among equally long matches); found = FALSE for None.
find_block_with_largest_common_prefix(t, node, tokens) ==
  LET K(c) == CommonPrefixLen(EdgeOf(c), tokens)
      cands == {c \in Children(t, node) : 0 < K(c) /\ K(c) < page_size}
  IN IF cands = {} THEN [found |-> FALSE, block |-> -1, k |-> 0]
     ELSE LET best == CHOOSE c \in cands :
                        \A e \in cands :
                          \/ K(c) > K(e)
                          \/ (K(c) = K(e) /\ t[c].block <= t[e].block)
          IN [found |-> TRUE, block |-> t[best].block, k |-> K(best)]

(* ------------------------------ BlockPool ----------------------------- *)
\* The operators below thread a record w through a handler:
\*   meta  seq_id -> PagedCacheMetadata      reqs  PrefixCache.active_requests
\*   trie  the radix trie                    free  the free block set
\*   hit, all, cow  cache_hit_tokens, all_tokens, cow_count
\*   now   time of the call                  ord   order in which the free set
\*   err   "none" or the error raised              hands out block ids
\*   ret   value returned by the last call   trim  seq_id -> trimmed prompt
\*   src, dst, srcin  blocks of the last COW copy; was src in the trie then
\*   evicted, freed   block ids evicted from the trie / given to free_block
Fail(w, e) == [w EXCEPT !.err = e]

\* free_block(block): a double free is rejected
free_block(w, b) ==
  IF b \in w.free THEN Fail(w, "Assertion")
  ELSE [w EXCEPT !.free = @ \cup {b}, !.freed = Append(@, b)]

\* The free block handed out first under the order ord.
PickBlock(fr, ord) ==
  ord[CHOOSE i \in 1 .. Len(ord) :
        ord[i] \in fr /\ \A j \in 1 .. (i - 1) : ord[j] \notin fr]

PC_evict_blocks_none(t, blocks_to_evict) == [trie |-> t, blocks |-> << >>]

\* PrefixCache.stale_blocks
PC_stale_blocks(t) == get_evictable_blocks(t)

\* an eviction that takes the highest block id among equally stale leaves
Victim_highest(t) ==
  CHOOSE p \in EvictCandidates(t) :
    \A q \in EvictCandidates(t) :
      \/ t[p].tick < t[q].tick
      \/ (t[p].tick = t[q].tick /\ t[p].block >= t[q].block)

RECURSIVE trie_evict_blocks_highest(_, _)
trie_evict_blocks_highest(t, desired) ==
  IF desired <= 0 \/ EvictCandidates(t) = {}
    THEN [trie |-> t, blocks |-> << >>]
    ELSE Let(Victim_highest(t), LAMBDA v :
           Let(Del(t, v), LAMBDA t1 :
             Let(trie_evict_blocks_highest(t1, desired - 1), LAMBDA r :
               [trie |-> r.trie, blocks |-> <<t[v].block>> \o r.blocks])))

PC_evict_blocks_ties_highest(t, blocks_to_evict) ==
  trie_evict_blocks_highest(t, IF blocks_to_evict = -1
                                 THEN Cardinality(get_all_blocks(t))
                                 ELSE blocks_to_evict)

PC_evict_blocks_one(t, blocks_to_evict) ==
  trie_evict_blocks(t, IF blocks_to_evict = -1 THEN 1 ELSE blocks_to_evict)

\* PrefixCache.evict_blocks(blocks_to_evict); -1 stands for None
PC_evict_blocks(t, blocks_to_evict) ==
  trie_evict_blocks(t, IF blocks_to_evict = -1
                         THEN Cardinality(get_all_blocks(t))
                         ELSE blocks_to_evict)

\* alloc_block(): evicts one block from the trie when the free set is empty
alloc_block(w) ==
  Let(IF w.free = {} THEN PC_evict_blocks(w.trie, 1)
      ELSE [trie |-> w.trie, blocks |-> << >>], LAMBDA ev :
    LET fr == w.free \cup Range(ev.blocks)
    IN IF fr = {} THEN [w EXCEPT !.err = "OutOfBlocks", !.ret = -1]
       ELSE LET b == PickBlock(fr, w.ord)
            IN [w EXCEPT !.trie = ev.trie, !.free = fr \ {b}, !.ret = b,
                         !.evicted = @ \o ev.blocks])

(* ----------------------------- PrefixCache ---------------------------- *)
\* PrefixCache.external_claim
PC_external_claim(w, seq_id) ==
  IF seq_id \in DOMAIN w.reqs THEN Fail(w, "Assertion")
  ELSE [w EXCEPT !.reqs = Put(@, seq_id, Root)]

PC_release_keeps_cursor(w, seq_id) ==
  IF seq_id \notin DOMAIN w.reqs THEN Fail(w, "Assertion")
  ELSE [w EXCEPT !.trie = mark_not_in_use_by(@, w.reqs[seq_id], seq_id)]

\* PrefixCache.release
PC_release(w, seq_id) ==
  IF seq_id \notin DOMAIN w.reqs THEN Fail(w, "Assertion")
  ELSE [w EXCEPT !.trie = mark_not_in_use_by(@, w.reqs[seq_id], seq_id),
                 !.reqs = Del(@, seq_id)]

PC_release_partial_block_leaks(w, s) ==
  [w EXCEPT !.meta[s] =
     [@ EXCEPT !.blocks = Slice(@, 0, Len(@) - 1),
               !.cached_idx = w.meta[s].committed_idx]]

\* PrefixCache._release_partial_block
PC_release_partial_block(w, s) ==
  LET d == w.meta[s]
      partial_blocks == committable_blocks(d)
      partial_tokens == d.cached_idx - d.committed_idx
  IN IF ~(d.committed_idx < d.cached_idx) \/ Len(partial_blocks) # 1
       THEN Fail(w, "Assertion")
     ELSE
       Then(free_block(w, partial_blocks[1]), LAMBDA w1 :
         LET d1 == [d EXCEPT !.blocks = Slice(@, 0, Len(@) - 1)]
         IN IF ~(0 < partial_tokens /\ partial_tokens < page_size)
              THEN [w1 EXCEPT !.meta[s] = d1, !.err = "Assertion"]
            ELSE [w1 EXCEPT !.meta[s] = [d1 EXCEPT !.cached_idx = @ - partial_tokens]])

cow_extend_uncached(d, block, k) ==
  [d EXCEPT !.blocks = Append(@, block)]

cow_extend_whole(d, block, k) ==
  [d EXCEPT !.blocks = Append(@, block), !.cached_idx = d.inflight_idx]

cow_extend_committed(d, block, k) ==
  [d EXCEPT !.blocks = Append(@, block), !.committed_idx = @ + k, !.cached_idx = @ + k]

\* PrefixCache._fetch_cow: the copied block joins the sequence's blocks and its
\* first k tokens count as cached
cow_extend(d, block, k) ==
  [d EXCEPT !.blocks = Append(@, block), !.cached_idx = @ + k]

\* PrefixCache._fetch_cow
PC_fetch_cow(w, s) ==
  IF page_size = 1 THEN w
  ELSE
    LET d == w.meta[s]
        probe == Slice(committable_tokens(d), 0, Len(committable_tokens(d)) - 1)
        cropped == Slice(probe, 0, page_size)
        partial_tokens == d.cached_idx - d.committed_idx
    IN IF Len(probe) = 0 THEN w
       ELSE
         Let(find_block_with_largest_common_prefix(w.trie, w.reqs[s], cropped),
             LAMBDA res :
           IF ~res.found THEN w
           ELSE IF res.k <= partial_tokens THEN w
           ELSE
             Then(IF partial_tokens > 0 THEN PC_release_partial_block(w, s) ELSE w,
                  LAMBDA w1 :
               Then(alloc_block(w1), LAMBDA w2 :
                 Let(cow_extend(w2.meta[s], w2.ret, res.k), LAMBDA d3 :
                   LET w3 == [w2 EXCEPT !.cow = @ + 1,
                                        !.src = res.block, !.dst = w2.ret,
                                        !.srcin = res.block \in get_all_blocks(w2.trie),
                                        !.meta[s] = d3]
                   IN IF Len(prompt_tokens(d3)) > 0 /\ d3.cached_idx < d3.inflight_idx
                        THEN w3 ELSE Fail(w3, "Assertion")))))

PC_fetch_cow_only(w, s) == [PC_fetch_cow(w, s) EXCEPT !.ret = << >>]

fetch_counters_latest(w, num_cache_hit_tokens, probe) ==
  [w EXCEPT !.hit = num_cache_hit_tokens, !.all = Len(probe)]

fetch_counters_hits_only(w, num_cache_hit_tokens, probe) ==
  [w EXCEPT !.hit = @ + num_cache_hit_tokens]

\* PrefixCache.fetch: the hit-rate counters
fetch_counters(w, num_cache_hit_tokens, probe) ==
  [w EXCEPT !.hit = @ + num_cache_hit_tokens, !.all = @ + Len(probe)]

\* PrefixCache.fetch; ret is the list of prefix blocks
PC_fetch(w, s) ==
  LET d == w.meta[s]
      probe == Slice(committable_tokens(d), 0, Len(committable_tokens(d)) - 1)
  IN IF Len(probe) = 0 THEN [w EXCEPT !.ret = << >>]
     ELSE
       Let(match_prefix(w.trie, probe, w.reqs[s]), LAMBDA m :
         LET num_cache_hit_tokens == Len(m.blocks) * page_size
         IN Let([fetch_counters(w, num_cache_hit_tokens, probe)
                   EXCEPT !.reqs[s] = m.node,
                          !.trie = mark_in_use_by(@, m.node, s, w.now)], LAMBDA w1 :
              Then(IF d.committed_idx < d.cached_idx /\ num_cache_hit_tokens > 0
                     THEN (IF d.committed_idx + num_cache_hit_tokens > d.cached_idx
                             THEN PC_release_partial_block(w1, s)
                             ELSE Fail(w1, "Assertion"))
                     ELSE w1, LAMBDA w2 :
                Let([w2 EXCEPT !.meta[s] =
                       [@ EXCEPT !.blocks = @ \o m.blocks,
                                 !.committed_idx = @ + num_cache_hit_tokens,
                                 !.cached_idx = @ + num_cache_hit_tokens]], LAMBDA w3 :
                  Then(PC_fetch_cow(w3, s), LAMBDA w4 :
                    [w4 EXCEPT !.ret = m.blocks])))))

FreeSuperseded_existing(w, existing, own) ==
  IF Len(existing) = 0 \/ Len(own) = 0 \/ existing[1] = own[1] THEN w
  ELSE free_block(w, existing[1])

FreeSuperseded_none(w, existing, own) == w

\* Frees each own block that an existing trie block supersedes (the zip loop
\* of PrefixCache.step).
RECURSIVE FreeSuperseded(_, _, _)
FreeSuperseded(w, existing, own) ==
  IF Len(existing) = 0 \/ Len(own) = 0 THEN w
  ELSE Then(IF existing[1] # own[1] THEN free_block(w, own[1]) ELSE w, LAMBDA w1 :
         FreeSuperseded(w1, Tail(existing), Tail(own)))

step_mark_skipped(t, node, seq_id, now) == t

\* PrefixCache.step: the node reached is marked in use by the sequence
step_mark_in_use_by(t, node, seq_id, now) == mark_in_use_by(t, node, seq_id, now)

PC_step_skipped(w, s) == w

\* PrefixCache.step
PC_step(w, s) ==
  LET d == w.meta[s]
  IN Let(match_prefix(w.trie, committable_tokens_aligned(d), w.reqs[s]), LAMBDA m :
       Let([w EXCEPT !.reqs[s] = m.node], LAMBDA w0 :
         Then(FreeSuperseded(w0, m.blocks, committable_blocks_aligned(d)), LAMBDA w1 :
           LET committed_block_idx == d.committed_idx \div page_size
           IN Let([d EXCEPT
                     !.blocks = Slice(@, 0, committed_block_idx) \o m.blocks
                                \o Slice(@, committed_block_idx + Len(m.blocks), Len(@)),
                     !.committed_idx = @ + Len(m.blocks) * page_size], LAMBDA d1 :
                LET toks == committable_tokens_aligned(d1)
                    blks == committable_blocks_aligned(d1)
                IN IF Len(toks) % page_size # 0 \/ Len(toks) # Len(blks) * page_size
                     THEN [w1 EXCEPT !.meta[s] = d1, !.err = "Assertion"]
                   ELSE
                     Let(insert(w1.trie, toks, blks, m.node, w.now), LAMBDA ins :
                       [w1 EXCEPT
                          !.meta[s] = [d1 EXCEPT !.committed_idx = @ + Len(toks)],
                          !.reqs[s] = ins.node,
                          !.trie = step_mark_in_use_by(ins.trie, ins.node, s, w.now)])))))

(* ----------------------- CacheLengthIncrementer ----------------------- *)
\* A uint32 is kept as the pair <<high, low>> of its 16-bit halves, and the
\* arithmetic on it wraps at 2^32.
U32Half == 65536

\* len(self.devices)
NumDevices == 2

ToU32(n) == <<(n \div U32Half) % U32Half, n % U32Half>>

U32Add(a, b) ==
  <<(a[1] + b[1] + ((a[2] + b[2]) \div U32Half)) % U32Half, (a[2] + b[2]) % U32Half>>

U32Sub(a, b) ==
  <<(a[1] - b[1] + ((a[2] - b[2]) \div U32Half)) % U32Half, (a[2] - b[2]) % U32Half>>

update_cache_lengths_right(input_row_offsets, cache_lengths) ==
  [d \in 1 .. Len(cache_lengths) |->
     [i \in 1 .. Len(cache_lengths[d]) |->
        U32Add(cache_lengths[d][i], Tail(input_row_offsets)[i])]]

\* The graph update_cache_lengths: per device, cache_length plus the
\* difference of input_row_offsets[1:] and input_row_offsets[:-1].
update_cache_lengths(input_row_offsets, cache_lengths) ==
  [d \in 1 .. Len(cache_lengths) |->
     LET right_slice == Slice(input_row_offsets, 1, Len(input_row_offsets))
         left_slice == Slice(input_row_offsets, 0, Len(input_row_offsets) - 1)
     IN [i \in 1 .. Len(cache_lengths[d]) |->
           U32Add(cache_lengths[d][i], U32Sub(right_slice[i], left_slice[i]))]]

increment_cache_lengths_keeps_rows(kv_cache_inputs, prev_model_inputs) ==
  [i \in 1 .. NumDevices |->
     [kv_cache_inputs[i] EXCEPT !.cache_lengths =
        update_cache_lengths(prev_model_inputs.input_row_offsets,
          [d \in 1 .. NumDevices |-> kv_cache_inputs[d].cache_lengths])[i]]]

\* KVCacheManager._increment_cache_lengths_ragged
increment_cache_lengths_ragged(kv_cache_inputs, prev_model_inputs) ==
  LET blocks == [i \in 1 .. NumDevices |-> kv_cache_inputs[i].blocks]
      cache_lengths == [i \in 1 .. NumDevices |-> kv_cache_inputs[i].cache_lengths]
      lookup_table == [i \in 1 .. NumDevices |-> kv_cache_inputs[i].lookup_table]
      max_lengths == kv_cache_inputs[1].max_lengths
      updated_cache_lengths ==
        update_cache_lengths(prev_model_inputs.input_row_offsets, cache_lengths)
      updated_max_lengths == Slice(max_lengths, 1, Len(max_lengths))
  IN [i \in 1 .. NumDevices |->
        [blocks |-> blocks[i], cache_lengths |-> updated_cache_lengths[i],
         lookup_table |-> lookup_table[i], max_lengths |-> updated_max_lengths]]

\* KVCacheManager.increment_cache_lengths; the paged manager is ragged
increment_cache_lengths(kv_cache_inputs, prev_model_inputs) ==
  increment_cache_lengths_ragged(kv_cache_inputs, prev_model_inputs)

MaxOver(S) == CHOOSE m \in S : \A x \in S : x <= m

\* The ragged inputs a fetch returns, the same on every device: the prior
\* cache length and the blocks of every batch row, and one row of max_lengths
\* per step (longest prompt, longest cache) of the episode.
ragged_inputs(ids, num_steps, w, cl) ==
  [d \in 1 .. NumDevices |->
     [blocks |-> d,
      cache_lengths |-> [i \in 1 .. Len(ids) |-> ToU32(cl[ids[i]])],
      lookup_table |-> [i \in 1 .. Len(ids) |-> w.meta[ids[i]].blocks],
      max_lengths |->
        [i \in 1 .. num_steps |->
           <<ToU32(IF i = 1 THEN MaxOver({Len(w.trim[s]) : s \in Range(ids)}) ELSE 1),
             ToU32(MaxOver({cl[s] + Len(w.trim[s]) + i - 1 : s \in Range(ids)}))>>]]]

\* input_row_offsets of the model inputs of the invocation just made: the
\* batch rows hold the trimmed prompts on the first invocation and one token
\* each on the later ones
RECURSIVE RowOffsets(_)
RowOffsets(lens) ==
  IF Len(lens) = 0 THEN <<ToU32(0)>>
  ELSE Let(RowOffsets(Slice(lens, 0, Len(lens) - 1)), LAMBDA o :
         Append(o, U32Add(o[Len(o)], ToU32(lens[Len(lens)]))))

(* --------------------------- KVCacheManager --------------------------- *)
VARIABLES
  available,        \* KVCacheManager.available
  cache_lengths,    \* KVCacheManager.cache_lengths
  fetch_metadata,   \* KVCacheManager.fetch_metadata: seq_id -> [prompt, num_steps]
  active_requests,  \* paged manager: seq_id -> PagedCacheMetadata
  pc_requests,      \* PrefixCache.active_requests: seq_id -> trie node
  trie,             \* PrefixCache.radix_trie
  free_blocks,      \* the free block set
  cache_hit_tokens, \* PrefixCache.cache_hit_tokens
  all_tokens,       \* PrefixCache.all_tokens
  cow_count,        \* PrefixCache.cow_count
  clock,            \* number of public operations performed so far
  last              \* the last public operation and its outcome

vars == <<page_size, available, cache_lengths, fetch_metadata, active_requests, pc_requests,
          trie, free_blocks, cache_hit_tokens, all_tokens, cow_count, clock, last>>

\* Programmer errors: surfaced as fatal, the caller does not go on using the
\* manager.  OutOfBlocks and Capacity are surfaced to the caller, who goes on.
Fatal == {"Protocol", "Assertion", "UnknownSequence", "KeyError"}

NoCow == [src |-> -1, dst |-> -1, srcin |-> TRUE, n |-> 0]

\* The handler state at the start of a call.
World(ord) ==
  [meta |-> active_requests, reqs |-> pc_requests, trie |-> trie,
   free |-> free_blocks, hit |-> cache_hit_tokens, all |-> all_tokens,
   cow |-> cow_count, now |-> clock + 1, ord |-> ord, err |-> "none",
   ret |-> << >>, trim |-> EmptyMap, src |-> -1, dst |-> -1, srcin |-> TRUE,
   evicted |-> << >>, freed |-> << >>]

\* Writes the handler state back.
Store(w) ==
  /\ active_requests' = w.meta
  /\ pc_requests' = w.reqs
  /\ trie' = w.trie
  /\ free_blocks' = w.free
  /\ cache_hit_tokens' = w.hit
  /\ all_tokens' = w.all
  /\ cow_count' = w.cow

Record(op, ids, arg, err, w) ==
  /\ UNCHANGED page_size
  /\ clock' = clock + 1
  /\ last' = [op |-> op, ids |-> ids, arg |-> arg, err |-> err,
              cow |-> [src |-> w.src, dst |-> w.dst, srcin |-> w.srcin,
                       n |-> w.cow - cow_count],
              evicted |-> w.evicted, freed |-> w.freed,
              ret |-> IF op = "fetch" /\ err = "none"
                        THEN ragged_inputs(ids, arg, w, cache_lengths)
                        ELSE << >>]

Enabled == clock < MaxOps /\ last.err \notin Fatal

Init ==
  /\ page_size = PageSize
  /\ available = SeqIds
  /\ cache_lengths = EmptyMap
  /\ fetch_metadata = EmptyMap
  /\ active_requests = EmptyMap
  /\ pc_requests = EmptyMap
  /\ trie = EmptyMap
  /\ free_blocks = BlockIds
  /\ cache_hit_tokens = 0
  /\ all_tokens = 0
  /\ cow_count = 0
  /\ clock = 0
  /\ last = [op |-> "init", ids |-> << >>, arg |-> 0, err |-> "none", cow |-> NoCow,
             evicted |-> << >>, freed |-> << >>, ret |-> << >>]

(* claim / external_claim *)
RECURSIVE BaseClaim_keeps_available(_, _)
BaseClaim_keeps_available(m, ids) ==
  IF Len(ids) = 0 THEN m
  ELSE IF ids[1] \notin m.av THEN [m EXCEPT !.err = "KeyError"]
  ELSE Let([m EXCEPT !.cl = Put(@, ids[1], 0)], LAMBDA m1 :
         BaseClaim_keeps_available(m1, Tail(ids)))

\* The loop of KVCacheManager.claim / external_claim over the ids drawn; m is
\* [av, cl, err]; removing an id that is not available raises KeyError.
RECURSIVE BaseClaim(_, _)
BaseClaim(m, ids) ==
  IF Len(ids) = 0 THEN m
  ELSE IF ids[1] \notin m.av THEN [m EXCEPT !.err = "KeyError"]
  ELSE Let([m EXCEPT !.av = @ \ {ids[1]}, !.cl = Put(@, ids[1], 0)], LAMBDA m1 :
         BaseClaim(m1, Tail(ids)))

\* The paged manager's part of a claim: metadata and the prefix-cache cursor.
RECURSIVE PagedClaim(_, _)
PagedClaim(w, ids) ==
  IF Len(ids) = 0 THEN w
  ELSE Let([w EXCEPT !.meta = Put(@, ids[1], NewMetadata)], LAMBDA w0 :
         Then(PC_external_claim(w0, ids[1]), LAMBDA w1 : PagedClaim(w1, Tail(ids))))

DoClaim(op, ids, n) ==
  \E m \in {BaseClaim([av |-> available, cl |-> cache_lengths, err |-> "none"], ids)} :
  \E w0 \in {World(<< >>)} :
  \E w \in {IF m.err = "none" THEN PagedClaim(w0, ids) ELSE w0} :
     /\ available' = m.av
     /\ cache_lengths' = m.cl
     /\ Store(w)
     /\ UNCHANGED fetch_metadata
     /\ Record(op, ids, n, IF m.err # "none" THEN m.err ELSE w.err, w)

\* Sequences of n distinct available ids, continued by an id that is not
\* available when the set runs out (set.pop() on the empty set).
PopOrders(n) ==
  {ids \in [1 .. n -> SeqIds \cup {-1}] :
     /\ \A i, j \in 1 .. n : (i < j /\ ids[i] # -1) => ids[i] # ids[j]
     /\ \A i \in 1 .. n :
          IF i <= Cardinality(available) THEN ids[i] \in available ELSE ids[i] = -1}

\* KVCacheManager.claim(n)
Claim(n) ==
  /\ Enabled
  /\ \E ids \in PopOrders(n) :
     \E taken \in {Slice(ids, 0, Min(n, Cardinality(available) + 1))} :
       DoClaim("claim", taken, n)

\* KVCacheManager.external_claim(seq_ids)
ExternalClaim(ids) ==
  /\ Enabled
  /\ DoClaim("external_claim", ids, Len(ids))

(* fetch *)
RECURSIVE AllocPages(_, _, _)
AllocPages(w, s, n) ==
  IF n <= 0 THEN w
  ELSE Then(alloc_block(w), LAMBDA w1 :
         Let([w1 EXCEPT !.meta[s].blocks = Append(@, w1.ret)], LAMBDA w2 :
           AllocPages(w2, s, ceildiv(w2.meta[s].seq_len, page_size)
                             - Len(w2.meta[s].blocks))))

\* The paged manager's _fetch for one batch row: metadata fetch, prefix
\* lookup, allocation of the missing pages, trimmed prompt.
Paged_fetch_one(w, s, prompt, num_steps) ==
  IF s \notin DOMAIN w.meta THEN Fail(w, "UnknownSequence")
  ELSE
    Let(Meta_fetch(w.meta[s], prompt, num_steps), LAMBDA r :
      Then([w EXCEPT !.meta[s] = r.d, !.err = r.err], LAMBDA w1 :
        Then(PC_fetch(w1, s), LAMBDA w2 :
          Then(AllocPages(w2, s, ceildiv(w2.meta[s].seq_len, page_size)
                                 - Len(w2.meta[s].blocks)), LAMBDA w3 :
            [w3 EXCEPT !.trim = Put(@, s, prompt_tokens(w3.meta[s]))]))))

RECURSIVE Paged_fetch(_, _, _)
Paged_fetch(w, batch, num_steps) ==
  IF Len(batch) = 0 THEN w
  ELSE Then(Paged_fetch_one(w, batch[1][1], batch[1][2], num_steps), LAMBDA w1 :
         Paged_fetch(w1, Tail(batch), num_steps))

\* The loop of KVCacheManager.fetch that records the fetch metadata.
RECURSIVE RecordFetch(_, _, _, _)
RecordFetch(m, ids, trim, num_steps) ==
  IF Len(ids) = 0 THEN m
  ELSE IF ids[1] \in DOMAIN m.fm THEN [m EXCEPT !.err = "Protocol"]
  ELSE Let([m EXCEPT !.fm = Put(@, ids[1],
                       [prompt |-> trim[ids[1]], num_steps |-> num_steps])], LAMBDA m1 :
         RecordFetch(m1, Tail(ids), trim, num_steps))

BatchIds(batch) == [i \in 1 .. Len(batch) |-> batch[i][1]]

\* KVCacheManager.fetch(seq_ids_and_prompts, num_steps)
Fetch(batch, num_steps, ord) ==
  /\ Enabled
  /\ \E w0 \in {World(ord)} :
     \E w \in {Paged_fetch(w0, batch, num_steps)} :
     \E m \in {IF w.err = "none"
                 THEN RecordFetch([fm |-> fetch_metadata, err |-> "none"],
                                  BatchIds(batch), w.trim, num_steps)
                 ELSE [fm |-> fetch_metadata, err |-> w.err]} :
        /\ Store(w)
        /\ fetch_metadata' = m.fm
        /\ UNCHANGED <<available, cache_lengths>>
        /\ Record("fetch", BatchIds(batch), num_steps, m.err, w)

(* step *)
\* The paged manager's _step for one batch row.
Paged_step_one(w, s, new_tokens) ==
  IF s \notin DOMAIN w.meta THEN Fail(w, "UnknownSequence")
  ELSE
    Let(Meta_step(w.meta[s], new_tokens), LAMBDA r :
      Then([w EXCEPT !.meta[s] = r.d, !.err = r.err], LAMBDA w1 : PC_step(w1, s)))

RECURSIVE Paged_step(_, _)
Paged_step(w, batch) ==
  IF Len(batch) = 0 THEN w
  ELSE Then(Paged_step_one(w, batch[1][1], batch[1][2]), LAMBDA w1 :
         Paged_step(w1, Tail(batch)))

step_increment_without_prompt(metadata) == metadata.num_steps - 1

\* KVCacheManager.step: the amount added to cache_lengths[seq_id]
step_increment(metadata) == Len(metadata.prompt) + metadata.num_steps - 1

\* The loop of KVCacheManager.step over the batch; m is [cl, fm, err].
RECURSIVE BaseStep(_, _)
BaseStep(m, batch) ==
  IF Len(batch) = 0 THEN m
  ELSE
    LET seq_id == batch[1][1]
        new_tokens == batch[1][2]
    IN IF seq_id \notin DOMAIN m.cl THEN [m EXCEPT !.err = "UnknownSequence"]
       ELSE IF seq_id \notin DOMAIN m.fm THEN [m EXCEPT !.err = "Protocol"]
       ELSE
         LET metadata == m.fm[seq_id]
         IN Let([m EXCEPT !.fm = Del(@, seq_id)], LAMBDA m1 :
              IF metadata.num_steps # Len(new_tokens)
                THEN [m1 EXCEPT !.err = "Protocol"]
                ELSE Let([m1 EXCEPT !.cl[seq_id] = @ + step_increment(metadata)],
                         LAMBDA m2 : BaseStep(m2, Tail(batch))))

\* KVCacheManager.step(seq_ids_and_new_tokens)
Step(batch) ==
  /\ Enabled
  /\ \E w0 \in {World(<< >>)} :
     \E w \in {Paged_step(w0, batch)} :
     \E m0 \in {[cl |-> cache_lengths, fm |-> fetch_metadata, err |-> w.err]} :
     \E m \in {IF w.err = "none" THEN BaseStep(m0, batch) ELSE m0} :
        /\ Store(w)
        /\ cache_lengths' = m.cl
        /\ fetch_metadata' = m.fm
        /\ UNCHANGED available
        /\ Record("step", BatchIds(batch), 0, m.err, w)

(* release *)
RECURSIVE FreeAll(_, _)
FreeAll(w, blocks) ==
  IF Len(blocks) = 0 THEN w
  ELSE Then(free_block(w, blocks[1]), LAMBDA w1 : FreeAll(w1, Tail(blocks)))

\* The paged manager's part of release: prefix-cache release, the uncommitted
\* blocks go back to the pool, the sequence's metadata is dropped.
Paged_release(w, seq_id) ==
  IF seq_id \notin DOMAIN w.meta THEN Fail(w, "KeyError")
  ELSE
    Then(PC_release(w, seq_id), LAMBDA w1 :
      Then(FreeAll(w1, uncommitted_blocks(w.meta[seq_id])), LAMBDA w2 :
        [w2 EXCEPT !.meta = Del(@, seq_id)]))

\* KVCacheManager.release(seq_id)
Release(seq_id) ==
  /\ Enabled
  /\ IF seq_id \notin DOMAIN cache_lengths
       THEN /\ UNCHANGED <<available, cache_lengths, fetch_metadata, active_requests,
                           pc_requests, trie, free_blocks, cache_hit_tokens,
                           all_tokens, cow_count>>
            /\ Record("release", <<seq_id>>, 0, "UnknownSequence", World(<< >>))
       ELSE \E w0 \in {World(<< >>)} :
            \E w \in {Paged_release(w0, seq_id)} :
               /\ available' = available \cup {seq_id}
               /\ cache_lengths' = Del(cache_lengths, seq_id)
               /\ UNCHANGED fetch_metadata
               /\ Store(w)
               /\ Record("release", <<seq_id>>, 0, w.err, w)

(* increment_cache_lengths *)
Increment_writes_host(prev_model_inputs) ==
  /\ Enabled
  /\ last.op \in {"fetch", "increment_cache_lengths"} /\ last.err = "none"
  /\ Len(prev_model_inputs.input_row_offsets) = Len(last.ids) + 1
  /\ cache_lengths' =
       [s \in DOMAIN cache_lengths |->
          IF s \in Range(last.ids) THEN cache_lengths[s] + 1 ELSE cache_lengths[s]]
  /\ UNCHANGED <<page_size, available, fetch_metadata, active_requests,
                 pc_requests, trie, free_blocks, cache_hit_tokens, all_tokens,
                 cow_count>>
  /\ clock' = clock + 1
  /\ last' = [op |-> "increment_cache_lengths", ids |-> last.ids,
              arg |-> IF last.op = "fetch" THEN 1 ELSE last.arg + 1,
              err |-> "none", cow |-> NoCow, evicted |-> << >>, freed |-> << >>,
              ret |-> increment_cache_lengths(last.ret, prev_model_inputs)]

\* KVCacheManager.increment_cache_lengths(kv_cache_inputs, prev_model_inputs)
\* on the inputs that the fetch, or the increment before, returned; nothing
\* of the manager is assigned. last.arg counts the increments of the episode.
Increment(prev_model_inputs) ==
  /\ Enabled
  /\ last.op \in {"fetch", "increment_cache_lengths"} /\ last.err = "none"
  /\ Len(prev_model_inputs.input_row_offsets) = Len(last.ids) + 1
  /\ UNCHANGED <<page_size, available, cache_lengths, fetch_metadata, active_requests,
                 pc_requests, trie, free_blocks, cache_hit_tokens, all_tokens,
                 cow_count>>
  /\ clock' = clock + 1
  /\ last' = [op |-> "increment_cache_lengths", ids |-> last.ids,
              arg |-> IF last.op = "fetch" THEN 1 ELSE last.arg + 1,
              err |-> "none", cow |-> NoCow, evicted |-> << >>, freed |-> << >>,
              ret |-> increment_cache_lengths(last.ret, prev_model_inputs)]

(* inputs *)
\* prompts and generated tokens handed to fetch and step
Prompts == {<<1>>, <<2>>, <<1, 2>>, <<1, 1>>, <<1, 2, 1>>}

NewTokens == {<<1>>, <<2>>, <<1, 1>>}

\* dicts seq_id -> value with one or two keys (two keys in ascending order)
Batches(vals) ==
  {<< <<s, v>> >> : s \in SeqIds, v \in vals}
  \cup {<< <<q[1], v1>>, <<q[2], v2>> >> :
          q \in {r \in SeqIds \X SeqIds : r[1] < r[2]}, v1 \in vals, v2 \in vals}

\* the free set hands out the lowest free id first
AllocOrder == [i \in 1 .. Max(NumBlocks, WideBlocks) |-> i - 1]

Next ==
  \/ \E n \in 1 .. MaxBatchSize : Claim(n)
  \/ \E ids \in SeqsOf(SeqIds, 1, 2) : ExternalClaim(ids)
  \/ \E batch \in Batches(Prompts), k \in 1 .. MaxNumSteps : Fetch(batch, k, AllocOrder)
  \/ \E batch \in Batches(NewTokens) : Step(batch)
  \/ \E s \in SeqIds : Release(s)

Spec == Init /\ [][Next]_vars

\* Multi-step episodes: a fetch for up to LongSteps steps, the model run once
\* per step with increment_cache_lengths between the runs, one closing step.
\* The model inputs of the run just made carry the row offsets of its batch.
PrevModelInputs ==
  [input_row_offsets |->
     RowOffsets([i \in 1 .. Len(last.ids) |->
                   IF last.op = "fetch" /\ last.err = "none"
                     THEN Len(fetch_metadata[last.ids[i]].prompt)
                     ELSE 1])]

EpisodeNext ==
  \/ Next
  \/ \E batch \in Batches(Prompts) : Fetch(batch, LongSteps, AllocOrder)
  \/ \E batch \in Batches({[i \in 1 .. LongSteps |-> 1]}) : Step(batch)
  \/ \E prev_model_inputs \in {PrevModelInputs} : Increment(prev_model_inputs)

EpisodeSpec == Init /\ [][EpisodeNext]_vars

\* The same manager constructed over a larger pool (room for a cached block
\* and a block for each of two sequences), and constructed with any of the
\* page sizes: page_size = 1 disables copy on write, page_size = 3 lets a
\* partial block hold one or two tokens.
WideInit ==
  /\ page_size = PageSize
  /\ available = SeqIds
  /\ cache_lengths = EmptyMap
  /\ fetch_metadata = EmptyMap
  /\ active_requests = EmptyMap
  /\ pc_requests = EmptyMap
  /\ trie = EmptyMap
  /\ free_blocks = WideBlockIds
  /\ cache_hit_tokens = 0
  /\ all_tokens = 0
  /\ cow_count = 0
  /\ clock = 0
  /\ last = [op |-> "init", ids |-> << >>, arg |-> 0, err |-> "none", cow |-> NoCow,
             evicted |-> << >>, freed |-> << >>, ret |-> << >>]

WideSpec == WideInit /\ [][Next]_vars

SizesInit ==
  /\ page_size \in PageSizes
  /\ available = SeqIds
  /\ cache_lengths = EmptyMap
  /\ fetch_metadata = EmptyMap
  /\ active_requests = EmptyMap
  /\ pc_requests = EmptyMap
  /\ trie = EmptyMap
  /\ free_blocks = WideBlockIds
  /\ cache_hit_tokens = 0
  /\ all_tokens = 0
  /\ cow_count = 0
  /\ clock = 0
  /\ last = [op |-> "init", ids |-> << >>, arg |-> 0, err |-> "none", cow |-> NoCow,
             evicted |-> << >>, freed |-> << >>, ret |-> << >>]

SizesSpec == SizesInit /\ [][Next]_vars

(* ------------------------------- claims ------------------------------- *)
ActiveSeqs == DOMAIN active_requests

Meta(s) == active_requests[s]

\* the last public operation was op and it returned normally
Succeeded(op) == last.op = op /\ last.err = "none"

\* positions of block b in the uncommitted blocks of the active sequences
UncommittedOwners(b) ==
  {x \in ActiveSeqs \X (1 .. MaxSeqLen) :
     /\ x[2] <= Len(uncommitted_blocks(Meta(x[1])))
     /\ uncommitted_blocks(Meta(x[1]))[x[2]] = b}

TrieOwners(b) == {p \in DOMAIN trie : trie[p].block = b}

OwnerCount(b) ==
  (IF b \in free_blocks THEN 1 ELSE 0)
  + Cardinality(UncommittedOwners(b)) + Cardinality(TrieOwners(b))

\* C1: every block id of [0, B) is in exactly one of the free set, the
\* uncommitted blocks of exactly one active sequence, or exactly one trie node.
C1_BlockPartition == \A b \in BlockIds : OwnerCount(b) = 1

\* a step adopted a block of the trie and freed the block it superseded
C1_Witness ==
  /\ Succeeded("step")
  /\ Len(last.freed) > 0
  /\ DOMAIN trie # {}
  /\ free_blocks # {}

\* the trie node of the i-th committed page of sequence s
CommittedPath(s, i) == Slice(Meta(s).tokens, 0, i * page_size)

\* every committed block of an active sequence (a prefix hit of fetch, a block
\* committed or adopted in step) is attached to the trie node of its page and
\* is not free
CommittedBlocksStay ==
  \A s \in ActiveSeqs : \A i \in 1 .. Len(committed_blocks(Meta(s))) :
    /\ CommittedPath(s, i) \in DOMAIN trie
    /\ trie[CommittedPath(s, i)].block = Meta(s).blocks[i]
    /\ Meta(s).blocks[i] \notin free_blocks

\* a node with refcount > 0 keeps its place and its block through the next
\* operation, and the block is not free afterwards
InUseStays ==
  \A p \in DOMAIN trie :
    refcount(trie, p) > 0 =>
      /\ p \in DOMAIN trie'
      /\ trie'[p].block = trie[p].block
      /\ trie[p].block \notin free_blocks'

\* C2: a block of a trie node with refcount > 0 is never evicted and never
\* returned to the free set by any operation, and the blocks a sequence holds
\* as committed (prefix hits of fetch, blocks committed in step) stay in the
\* trie while the sequence is active.
C2_InUseNeverEvicted == [](CommittedBlocksStay) /\ [][InUseStays]_vars

\* an allocation evicted a block while another node was in use
C2_Witness ==
  /\ Len(last.evicted) > 0
  /\ \E p \in DOMAIN trie : refcount(trie, p) > 0
  /\ \E s \in ActiveSeqs : Len(committed_blocks(Meta(s))) > 0

\* C3: the set of sequences counted by each trie node is the set of sequences
\* whose current node lies at or below it, so its refcount is their number.
C3_RefcountIsUsers ==
  \A p \in DOMAIN trie :
    /\ trie[p].seqs = {s \in DOMAIN pc_requests : IsPrefix(p, pc_requests[s])}
    /\ refcount(trie, p) =
         Cardinality({s \in DOMAIN pc_requests : IsPrefix(p, pc_requests[s])})

\* C4: every active sequence has
\* 0 <= committed_idx <= cached_idx <= inflight_idx <= seq_len <= max_seq_len.
C4_IndexOrder ==
  \A s \in ActiveSeqs :
    /\ 0 <= Meta(s).committed_idx
    /\ Meta(s).committed_idx <= Meta(s).cached_idx
    /\ Meta(s).cached_idx <= Meta(s).inflight_idx
    /\ Meta(s).inflight_idx <= Meta(s).seq_len
    /\ Meta(s).seq_len <= MaxSeqLen

\* C5: committed_idx of every active sequence is a multiple of page_size, and
\* every trie node hangs page_size tokens below its parent, which is the root
\* or another node.
C5_PageAligned ==
  /\ \A s \in ActiveSeqs : Meta(s).committed_idx % page_size = 0
  /\ \A p \in DOMAIN trie :
       /\ Len(p) >= page_size
       /\ Len(EdgeOf(p)) = page_size
       /\ LET parent == SubSeq(p, 1, Len(p) - page_size)
          IN parent = Root \/ parent \in DOMAIN trie

\* a fetch copied a partially matching block and pages are committed
C5_Witness ==
  /\ Succeeded("fetch")
  /\ last.cow.n > 0
  /\ DOMAIN trie # {}
  /\ \E s \in ActiveSeqs : Meta(s).committed_idx > 0

\* C6: after a successful step every sequence of the call has
\* cached_idx = inflight_idx = seq_len (no uncached tokens) and fewer than
\* page_size tokens beyond committed_idx.
C6_AfterStep ==
  Succeeded("step") =>
    \A i \in 1 .. Len(last.ids) :
      /\ Len(uncached_tokens(Meta(last.ids[i]))) = 0
      /\ Meta(last.ids[i]).cached_idx = Meta(last.ids[i]).inflight_idx
      /\ Meta(last.ids[i]).inflight_idx = Meta(last.ids[i]).seq_len
      /\ Meta(last.ids[i]).seq_len - Meta(last.ids[i]).committed_idx < page_size

\* a step committed a page and left a partial page behind it
C6_Witness ==
  /\ Succeeded("step")
  /\ \E i \in 1 .. Len(last.ids) :
       /\ Meta(last.ids[i]).committed_idx > 0
       /\ Meta(last.ids[i]).seq_len > Meta(last.ids[i]).committed_idx

\* the operation that leads to the next state was op and it returned normally
Succeeds(op) == last'.op = op /\ last'.err = "none"

\* the sequence ids named by the operation that leads to the next state
Named == Range(last'.ids)

\* a successful fetch finds no entry for its sequences and leaves one for each
FetchOpensEpisode ==
  Succeeds("fetch") =>
    \A s \in Named : s \notin DOMAIN fetch_metadata /\ s \in DOMAIN fetch_metadata'

\* a successful step finds an entry for each of its sequences and leaves none
StepClosesEpisode ==
  Succeeds("step") =>
    \A s \in Named : s \in DOMAIN fetch_metadata /\ s \notin DOMAIN fetch_metadata'

\* an entry appears only in a successful fetch of its sequence, and goes only
\* in a successful step or in a release of its sequence
EntryOnlyBetween ==
  \A s \in SeqIds :
    /\ (s \notin DOMAIN fetch_metadata /\ s \in DOMAIN fetch_metadata')
         => (Succeeds("fetch") /\ s \in Named)
    /\ (s \in DOMAIN fetch_metadata /\ s \notin DOMAIN fetch_metadata')
         => ((Succeeds("step") \/ Succeeds("release")) /\ s \in Named)

\* a sequence that has just been claimed has no entry: its first successful
\* operation of the two is a fetch
ClaimStartsFresh ==
  (Succeeds("claim") \/ Succeeds("external_claim")) =>
    \A s \in Named : s \notin DOMAIN fetch_metadata'

\* C7: for every claimed sequence successful fetches and steps alternate,
\* fetch first: a sequence is claimed without a fetch_metadata entry, the entry
\* appears in a successful fetch that found none and goes in the next
\* successful step (or a release), so a fetch that finds an entry and a step
\* that finds none do not succeed.
C7_FetchStepAlternate ==
  [][ClaimStartsFresh /\ FetchOpensEpisode /\ StepClosesEpisode /\ EntryOnlyBetween]_vars

\* C8: after release(s) nothing of the sequence's episode remains: no
\* fetch_metadata entry of s, no trie node counting s, no per-sequence
\* metadata, and the blocks the release gave back are free.
C8_ReleaseCancelsEpisode ==
  Succeeded("release") =>
    /\ last.ids[1] \notin DOMAIN fetch_metadata
    /\ \A p \in DOMAIN trie : last.ids[1] \notin trie[p].seqs
    /\ last.ids[1] \notin ActiveSeqs \cup DOMAIN pc_requests
    /\ Range(last.freed) \subseteq free_blocks

\* a successful step adds len(recorded prompt) + num_steps - 1 to the
\* cache length of each sequence it names, removes their entries, and leaves
\* the cache length and the entry of every other sequence as they were
StepAdvances ==
  Succeeds("step") =>
    /\ DOMAIN cache_lengths' = DOMAIN cache_lengths
    /\ DOMAIN fetch_metadata' = DOMAIN fetch_metadata \ Named
    /\ \A s \in Named :
         cache_lengths'[s] = cache_lengths[s]
           + Len(fetch_metadata[s].prompt) + fetch_metadata[s].num_steps - 1
    /\ \A s \in DOMAIN cache_lengths \ Named : cache_lengths'[s] = cache_lengths[s]
    /\ \A s \in DOMAIN fetch_metadata \ Named : fetch_metadata'[s] = fetch_metadata[s]

\* C9: a successful step increases cache_length[s] by exactly
\* len(prompt recorded by the fetch) + num_steps - 1, removes the
\* fetch_metadata entry of s, and leaves cache_length and fetch_metadata of
\* the sequences it does not name unchanged.
C9_StepCacheLength == [][StepAdvances]_vars

\* a step of one sequence while another sequence has a fetch outstanding
C9_Witness ==
  /\ Succeeded("step")
  /\ cache_lengths[last.ids[1]] > 1
  /\ DOMAIN fetch_metadata # {}

\* available and the claimed ids are disjoint and cover [0, max_batch_size)
IdPartition ==
  /\ available \cap DOMAIN cache_lengths = {}
  /\ available \cup DOMAIN cache_lengths = SeqIds

\* claim(n) returns n distinct ids that were available, takes them out of
\* available and gives each the cache length 0
ClaimTakes ==
  Succeeds("claim") =>
    /\ Len(last'.ids) = last'.arg
    /\ Cardinality(Named) = last'.arg
    /\ Named \subseteq available
    /\ available' = available \ Named
    /\ DOMAIN cache_lengths' = DOMAIN cache_lengths \cup Named
    /\ \A s \in Named : cache_lengths'[s] = 0

\* C10: in every state available and the keys of cache_lengths partition
\* [0, max_batch_size), and claim(n) returns n pairwise distinct ids that
\* were available, removes them from available and sets their cache length
\* to 0.
C10_ClaimPartition == [](IdPartition) /\ [][ClaimTakes]_vars

\* claim(2) took the last two available ids
C10_Witness ==
  /\ Succeeded("claim")
  /\ last.arg = 2
  /\ available = {}
  /\ \A i \in 1 .. Len(last.ids) : cache_lengths[last.ids[i]] = 0

\* sequence s is as claim left it: no fetch has touched it
Fresh(s) ==
  /\ s \in ActiveSeqs /\ Meta(s) = NewMetadata
  /\ s \in DOMAIN pc_requests /\ pc_requests[s] = Root
  /\ s \in DOMAIN cache_lengths /\ cache_lengths[s] = 0

\* the trie has the same nodes with the same refcounts in the next state
SameRefcounts ==
  /\ DOMAIN trie' = DOMAIN trie
  /\ \A p \in DOMAIN trie : refcount(trie', p) = refcount(trie, p)

\* a successful claim only adds its ids: they leave available, they get the
\* cache length 0, a cursor at the root and empty metadata; the trie, its
\* refcounts and the free set stay
ClaimAdds ==
  (Succeeds("claim") \/ Succeeds("external_claim")) =>
    /\ Named \subseteq available
    /\ Named \cap (DOMAIN cache_lengths \cup DOMAIN pc_requests) = {}
    /\ available' = available \ Named
    /\ DOMAIN cache_lengths' = DOMAIN cache_lengths \cup Named
    /\ \A s \in DOMAIN cache_lengths : cache_lengths'[s] = cache_lengths[s]
    /\ DOMAIN pc_requests' = DOMAIN pc_requests \cup Named
    /\ \A s \in DOMAIN pc_requests : pc_requests'[s] = pc_requests[s]
    /\ SameRefcounts
    /\ free_blocks' = free_blocks
    /\ \A s \in Named : Fresh(s)'

\* a successful release of a sequence that no fetch has touched removes
\* exactly what its claim added
ReleaseOfFreshRemoves ==
  (Succeeds("release") /\ Fresh(last'.ids[1])) =>
    /\ available' = available \cup {last'.ids[1]}
    /\ cache_lengths' = Del(cache_lengths, last'.ids[1])
    /\ pc_requests' = Del(pc_requests, last'.ids[1])
    /\ SameRefcounts
    /\ free_blocks' = free_blocks

\* C11: claiming ids and releasing them with no fetch in between restores
\* the state before the claim: available, the cache_length map, the prefix
\* cache's cursor map, every trie refcount and the free set are as before.
\* (The claim adds exactly its ids as fresh sequences and changes nothing
\* else of these; the release of a fresh sequence removes exactly that.)
C11_ClaimReleaseRestores == [][ClaimAdds /\ ReleaseOfFreshRemoves]_vars

\* a sequence claimed in the fourth operation, while another sequence keeps a
\* committed page in use, has been released in the fifth
C11_Witness ==
  /\ Succeeded("release")
  /\ clock = 5
  /\ last.freed = << >>
  /\ fetch_metadata = EmptyMap
  /\ available = SeqIds \ ActiveSeqs
  /\ \A s \in ActiveSeqs : Meta(s).cached_idx = Meta(s).seq_len
  /\ \E p \in DOMAIN trie : refcount(trie, p) > 0
  /\ \A p \in DOMAIN trie : trie[p].tick <= 3

\* the operation that leads to the next state was op and it raised err
Raises(op, err) == last'.op = op /\ last'.err = err

\* everything a fetch may touch is as before the call
FetchLeftNoTrace ==
  UNCHANGED <<active_requests, free_blocks, trie, pc_requests,
              cache_hit_tokens, all_tokens, cow_count, fetch_metadata>>

\* C12: a fetch that fails with OutOfBlocks leaves no partial state change:
\* the sequences' indices and block lists, the free set, the trie and its
\* refcounts, the per-sequence current node, the counters cache_hit_tokens,
\* all_tokens and cow_count, and fetch_metadata are as before the call.
C12_OutOfBlocksAtomic == [][Raises("fetch", "OutOfBlocks") => FetchLeftNoTrace]_vars

\* every sequence the next operation names has a fetch outstanding: an entry
\* in fetch_metadata and prompt tokens waiting for their step
AllNamedFetched ==
  \A s \in Named :
    /\ s \in DOMAIN fetch_metadata /\ s \in DOMAIN cache_lengths
    /\ s \in ActiveSeqs /\ Len(prompt_tokens(Meta(s))) > 0

\* the manager is as before the call
ManagerUnchanged ==
  UNCHANGED <<available, cache_lengths, fetch_metadata, active_requests,
              pc_requests, trie, free_blocks, cache_hit_tokens, all_tokens,
              cow_count>>

\* C13: a step whose new_tokens length differs from the num_steps recorded by
\* the matching fetch fails with a Protocol error and leaves the manager
\* unchanged: the entry in fetch_metadata is still present, cache_length is
\* not advanced, the indices, the blocks and the trie are as before the call.
\* (When every sequence of the call has its fetch outstanding, a Protocol
\* error of step can only be this mismatch.)
C13_StepMismatchAtomic ==
  [][(Raises("step", "Protocol") /\ AllNamedFetched) => ManagerUnchanged]_vars

\* sequence s has a fetch outstanding: fetched and not stepped since
FetchOutstanding(s) ==
  /\ s \in DOMAIN fetch_metadata
  /\ s \in ActiveSeqs /\ Len(prompt_tokens(Meta(s))) > 0

\* a fetch naming a sequence with a fetch outstanding does not succeed, and
\* the error is Protocol when that sequence is the first of the call
DoubleFetchRefused ==
  (last'.op = "fetch" /\ \E s \in Named : FetchOutstanding(s)) =>
    /\ last'.err # "none"
    /\ FetchOutstanding(last'.ids[1]) => last'.err = "Protocol"

\* such a fetch, refused with Protocol, changes nothing
DoubleFetchLeavesNoTrace ==
  (Raises("fetch", "Protocol") /\ \E s \in Named : FetchOutstanding(s))
    => ManagerUnchanged

\* C14: a fetch naming a sequence that already has a fetch outstanding fails
\* with a Protocol error and changes no state, neither of that sequence nor
\* of any other sequence named in the same call.
C14_DoubleFetchAtomic == [][DoubleFetchRefused /\ DoubleFetchLeavesNoTrace]_vars

\* the next operation is a step or a release naming an id that is not claimed
NamesUnclaimed ==
  /\ last'.op \in {"step", "release"}
  /\ \E s \in Named : s \notin DOMAIN cache_lengths

\* such a call does not succeed, and the error is UnknownSequence when the
\* unclaimed id is the first of the call
UnclaimedRefused ==
  NamesUnclaimed =>
    /\ last'.err # "none"
    /\ last'.ids[1] \notin DOMAIN cache_lengths => last'.err = "UnknownSequence"

\* such a call, refused with UnknownSequence, changes nothing
UnclaimedLeavesNoTrace ==
  (NamesUnclaimed /\ last'.err = "UnknownSequence") => ManagerUnchanged

\* C15: step or release naming a sequence id that is not claimed fails with
\* UnknownSequence and changes no state; in a step naming several sequences
\* the cache_length, the FetchMetadata and the metadata of the other
\* sequences are unchanged too.
C15_UnknownSequenceAtomic == [][UnclaimedRefused /\ UnclaimedLeavesNoTrace]_vars

\* the four indices, the token array and the block list of sequence s are as
\* before the call
SequenceUnchanged(s) ==
  /\ s \in DOMAIN active_requests'
  /\ active_requests'[s].committed_idx = Meta(s).committed_idx
  /\ active_requests'[s].cached_idx = Meta(s).cached_idx
  /\ active_requests'[s].inflight_idx = Meta(s).inflight_idx
  /\ active_requests'[s].seq_len = Meta(s).seq_len
  /\ active_requests'[s].tokens = Meta(s).tokens
  /\ active_requests'[s].blocks = Meta(s).blocks

\* C16: a fetch whose prompt length plus num_steps - 1 would take seq_len
\* beyond max_seq_len fails with a Capacity error and leaves the sequence's
\* four indices, its token array and its block list unchanged.  (Stated for a
\* fetch of one sequence, where the sequence that fails is the one named.)
C16_CapacityAtomic ==
  [][(Raises("fetch", "Capacity") /\ Len(last'.ids) = 1)
       => SequenceUnchanged(last'.ids[1])]_vars

\* after a successful release(s): the uncommitted blocks of s are free; each
\* committed block of s is still the block of the trie node of its page and
\* is not free; that node is evictable only if no sequence that is still
\* active has its cursor at or below it; no block the release gave back is in
\* the trie
ReleaseKeepsCommitted ==
  Succeeds("release") =>
    LET s == last'.ids[1]
    IN /\ Range(uncommitted_blocks(Meta(s))) \subseteq free_blocks'
       /\ \A i \in 1 .. Len(committed_blocks(Meta(s))) :
            /\ CommittedPath(s, i) \in DOMAIN trie'
            /\ trie'[CommittedPath(s, i)].block = Meta(s).blocks[i]
            /\ Meta(s).blocks[i] \notin free_blocks'
            /\ Evictable(trie', CommittedPath(s, i)) =>
                 \A t \in DOMAIN pc_requests' :
                   ~IsPrefix(CommittedPath(s, i), pc_requests'[t])
            /\ (\A t \in DOMAIN pc_requests' :
                  ~IsPrefix(CommittedPath(s, i), pc_requests'[t]))
                 => trie'[CommittedPath(s, i)].seqs = {}
       /\ Range(last'.freed) \cap (get_all_blocks(trie) \cup get_all_blocks(trie')) = {}
       /\ free_blocks' \cap get_all_blocks(trie') = {}

\* C17: after release(s) every uncommitted block of s is in the free set and
\* every committed block of s is still attached to its trie node, evictable
\* only if no other active sequence references it; release never frees a
\* block that is in the trie.
C17_ReleaseFreesUncommitted == [][ReleaseKeepsCommitted]_vars

\* the only sequence has been released after its step: its partial page went
\* back to the pool, its committed page stays in the trie, now evictable
C17_Witness ==
  /\ Succeeded("release")
  /\ clock = 4
  /\ ActiveSeqs = {}
  /\ Len(last.freed) > 0
  /\ \E p \in DOMAIN trie : Evictable(trie, p) /\ trie[p].block \notin free_blocks

\* sequence s has been fetched and stepped and has no fetch outstanding
Stepped(s) ==
  /\ s \in ActiveSeqs /\ s \in DOMAIN pc_requests
  /\ s \notin DOMAIN fetch_metadata
  /\ Meta(s).seq_len > 0
  /\ Meta(s).cached_idx = Meta(s).seq_len
  /\ Meta(s).inflight_idx = Meta(s).seq_len

\* two sequences that have run the same prompt and the same generated tokens
Twins(s, t) ==
  /\ s # t /\ Stepped(s) /\ Stepped(t)
  /\ Meta(s).seq_len = Meta(t).seq_len
  /\ Meta(s).tokens = Meta(t).tokens

\* the trie nodes at or above node n
PathNodes(n) == {p \in DOMAIN trie : IsPrefix(p, n)}

\* after both have stepped: one current node, the node of their committed
\* tokens; the same committed blocks, those of the nodes on the path; one node
\* per committed page on the path; each node of the path counted by both
TwinsShare ==
  \A s, t \in ActiveSeqs :
    Twins(s, t) =>
      /\ pc_requests[s] = pc_requests[t]
      /\ pc_requests[s] = committed_tokens(Meta(s))
      /\ committed_blocks(Meta(s)) = committed_blocks(Meta(t))
      /\ Cardinality(PathNodes(pc_requests[s])) = Meta(s).committed_idx \div page_size
      /\ \A i \in 1 .. Len(committed_blocks(Meta(s))) :
           /\ CommittedPath(s, i) \in PathNodes(pc_requests[s])
           /\ trie[CommittedPath(s, i)].block = Meta(s).blocks[i]
           /\ {s, t} \subseteq trie[CommittedPath(s, i)].seqs
           /\ refcount(trie, CommittedPath(s, i)) = 2

\* the step of the second of two twins adds no node to the trie and gives
\* back each block of its own that an existing trie block replaces
SecondTwinAdopts ==
  Succeeds("step") =>
    \A s \in Named : \A t \in ActiveSeqs \ Named :
      (Stepped(t) /\ Twins(s, t)') =>
        /\ DOMAIN trie' = DOMAIN trie
        /\ \A i \in 1 .. Len(committed_blocks(Meta(t))) :
             active_requests'[s].blocks[i] = Meta(t).blocks[i]
        /\ \A i \in 1 .. Len(committed_blocks(Meta(t))) :
             Meta(s).blocks[i] # Meta(t).blocks[i] =>
               /\ Meta(s).blocks[i] \in Range(last'.freed)
               /\ Meta(s).blocks[i] \in free_blocks'

\* C18: when two sequences run the same prompt and the same generated tokens,
\* each fetching before either steps, then after both have stepped they have
\* the same current node and the same committed blocks, the trie holds one
\* node per committed page of the shared path (not two), the sequence that
\* stepped second has freed each block of its own that an existing trie block
\* duplicated, and the refcount on the shared path is 2.
C18_TwinsSharePath == [](TwinsShare) /\ [][SecondTwinAdopts]_vars

\* the second of two twins has stepped: it freed its own block and both share
\* a committed page
C18_Witness ==
  /\ Succeeded("step")
  /\ Len(last.ids) = 1
  /\ Len(last.freed) > 0
  /\ \E s, t \in ActiveSeqs :
       /\ Twins(s, t)
       /\ Len(committed_blocks(Meta(s))) > 0
       /\ Range(last.freed) \cap Range(Meta(s).blocks) = {}

(* ------------------------ the radix trie alone ------------------------ *)
\* The trie driven directly through its interface: insert, match_prefix,
\* mark_in_use_by, mark_not_in_use_by and PrefixCache.evict_blocks.  The
\* blocks handed to insert come from free_blocks, the blocks evicted go back
\* to it; pc_requests keeps the node each sequence has marked.
TrieBlocks == 4
TrieMaxOps == 4
TrieMaxPages == 2

TrieBlockIds == 0 .. (TrieBlocks - 1)

\* the pages inserted: all tokens 1 but the last, which is 1 or 2
TriePages == {pg \in [1 .. page_size -> {1, 2}] : \A i \in 1 .. (page_size - 1) : pg[i] = 1}

\* the tokens of a list of pages
RECURSIVE Flatten(_)
Flatten(pages) == IF Len(pages) = 0 THEN << >> ELSE pages[1] \o Flatten(Tail(pages))

\* token lists of one to TrieMaxPages whole pages
PageLists == {Flatten(pages) : pages \in SeqsOf(TriePages, 1, TrieMaxPages)}

\* lists of n free blocks, in the order of their ids
FreeLists(n) ==
  {b \in [1 .. n -> free_blocks] : \A i, j \in 1 .. n : i < j => b[i] < b[j]}

\* the block attached to each page of tokens below node, -1 where there is no
\* such node
BlocksBelow(t, tokens, node) ==
  [i \in 1 .. (Len(tokens) \div page_size) |->
     IF node \o SubSeq(tokens, 1, i * page_size) \in DOMAIN t
       THEN t[node \o SubSeq(tokens, 1, i * page_size)].block
       ELSE -1]

NoCall ==
  [op |-> "init", tokens |-> << >>, blocks |-> << >>, node |-> Root, ret |-> Root,
   old |-> << >>, found |-> [node |-> Root, blocks |-> << >>], arg |-> 0,
   evicted |-> << >>]

TrieInit ==
  /\ page_size = PageSize
  /\ available = SeqIds
  /\ cache_lengths = EmptyMap
  /\ fetch_metadata = EmptyMap
  /\ active_requests = EmptyMap
  /\ pc_requests = EmptyMap
  /\ trie = EmptyMap
  /\ free_blocks = TrieBlockIds
  /\ cache_hit_tokens = 0
  /\ all_tokens = 0
  /\ cow_count = 0
  /\ clock = 0
  /\ last = NoCall

TrieStep ==
  /\ clock < TrieMaxOps
  /\ clock' = clock + 1
  /\ UNCHANGED <<page_size, available, cache_lengths, fetch_metadata,
                 active_requests, cache_hit_tokens, all_tokens, cow_count>>

\* node = radix_trie.insert(tokens, blocks, node=node); last.old keeps the
\* blocks that were attached to the pages before the call
TrieInsert(tokens, blocks, node) ==
  /\ TrieStep
  /\ \E ins \in {insert(trie, tokens, blocks, node, clock + 1)} :
       /\ trie' = ins.trie
       /\ free_blocks' = free_blocks \ get_all_blocks(ins.trie)
       /\ last' = [NoCall EXCEPT !.op = "insert", !.tokens = tokens,
                                 !.blocks = blocks, !.node = node, !.ret = ins.node,
                                 !.old = BlocksBelow(trie, tokens, node)]
  /\ UNCHANGED pc_requests

\* radix_trie.match_prefix of the tokens just inserted, from the same node
TrieMatch ==
  /\ TrieStep
  /\ last.op = "insert"
  /\ last' = [last EXCEPT !.op = "match_prefix",
                          !.found = match_prefix(trie, last.tokens, last.node)]
  /\ UNCHANGED <<trie, free_blocks, pc_requests>>

\* radix_trie.mark_in_use_by(node, seq_id), node at or below the node the
\* sequence has marked so far
TrieMark(seq_id, node) ==
  /\ TrieStep
  /\ seq_id \in DOMAIN pc_requests => IsPrefix(pc_requests[seq_id], node)
  /\ trie' = mark_in_use_by(trie, node, seq_id, clock + 1)
  /\ pc_requests' = Put(pc_requests, seq_id, node)
  /\ last' = [NoCall EXCEPT !.op = "mark_in_use_by", !.node = node, !.arg = seq_id]
  /\ UNCHANGED free_blocks

\* radix_trie.mark_not_in_use_by(node, seq_id) with the node the sequence holds
TrieUnmark(seq_id) ==
  /\ TrieStep
  /\ seq_id \in DOMAIN pc_requests
  /\ trie' = mark_not_in_use_by(trie, pc_requests[seq_id], seq_id)
  /\ pc_requests' = Del(pc_requests, seq_id)
  /\ last' = [NoCall EXCEPT !.op = "mark_not_in_use_by", !.arg = seq_id]
  /\ UNCHANGED free_blocks

\* PrefixCache.evict_blocks(blocks_to_evict), -1 for None
TrieEvict(blocks_to_evict) ==
  /\ TrieStep
  /\ \E r \in {PC_evict_blocks(trie, blocks_to_evict)} :
       /\ trie' = r.trie
       /\ free_blocks' = free_blocks \cup Range(r.blocks)
       /\ last' = [NoCall EXCEPT !.op = "evict_blocks", !.arg = blocks_to_evict,
                                 !.evicted = r.blocks]
  /\ UNCHANGED pc_requests

TrieNext ==
  \/ \E tokens \in PageLists, node \in DOMAIN trie \cup {Root} :
       \E blocks \in FreeLists(Len(tokens) \div page_size) :
         TrieInsert(tokens, blocks, node)
  \/ TrieMatch
  \/ \E seq_id \in SeqIds, node \in DOMAIN trie : TrieMark(seq_id, node)
  \/ \E seq_id \in SeqIds : TrieUnmark(seq_id)
  \/ \E n \in {-1} \cup (0 .. TrieBlocks) : TrieEvict(n)

TrieSpec == TrieInit /\ [][TrieNext]_vars

\* match_prefix has just been applied to the tokens and the node of an insert
Matched == last.op = "match_prefix"

\* C19 as stated: insert(tokens, blocks, from=n) followed by
\* match_prefix(tokens, from=n) returns exactly the inserted blocks and the
\* node that insert returned, for any page-aligned tokens and blocks.
C19_InsertThenMatch ==
  Matched => last.found = [node |-> last.ret, blocks |-> last.blocks]

\* C19 amended: match_prefix returns the node that insert returned and one
\* block per page of tokens: the inserted block where insert created the
\* page's node, the block already attached where the node existed; so
\* exactly the inserted blocks when no page of tokens had a node below n.
C19_InsertThenMatchKept ==
  Matched =>
    /\ last.found.node = last.ret
    /\ last.ret = last.node \o last.tokens
    /\ Len(last.found.blocks) = Len(last.blocks)
    /\ \A i \in 1 .. Len(last.blocks) :
         last.found.blocks[i] = IF last.old[i] = -1 THEN last.blocks[i] ELSE last.old[i]
    /\ (\A i \in 1 .. Len(last.blocks) : last.old[i] = -1)
         => last.found.blocks = last.blocks

\* two pages were inserted below a node, the first of them already in the
\* trie with another block, and then matched
C19_Witness ==
  /\ Matched
  /\ last.node # Root
  /\ Len(last.blocks) = 2
  /\ last.old[1] # -1 /\ last.old[1] # last.blocks[1]
  /\ last.old[2] = -1

\* the nodes detached by the call that leads to the next state
Detached == DOMAIN trie \ DOMAIN trie'

\* the place of node p's block in the list of evicted blocks (0 if absent)
EvictedAt(p) ==
  IF \E i \in 1 .. Len(last'.evicted) : last'.evicted[i] = trie[p].block
    THEN CHOOSE i \in 1 .. Len(last'.evicted) : last'.evicted[i] = trie[p].block
    ELSE 0

\* evict_blocks only detaches nodes, each with refcount 0 and after every
\* node below it; it returns the blocks of the detached nodes, one each, as
\* many as asked for or as there are evictable blocks; asked for None it
\* detaches exactly the evictable nodes
EvictsStaleLeaves ==
  last'.op = "evict_blocks" =>
    /\ DOMAIN trie' \subseteq DOMAIN trie
    /\ \A p \in DOMAIN trie' : trie'[p] = trie[p]
    /\ \A p \in Detached : refcount(trie, p) = 0
    /\ \A p \in Detached : \A q \in DOMAIN trie :
         (IsPrefix(p, q) /\ q # p) =>
           /\ q \in Detached
           /\ 0 < EvictedAt(q) /\ EvictedAt(q) < EvictedAt(p)
    /\ Len(last'.evicted) = Cardinality(Detached)
    /\ Range(last'.evicted) = {trie[p].block : p \in Detached}
    /\ Len(last'.evicted) =
         IF last'.arg = -1 THEN Cardinality(PC_stale_blocks(trie))
         ELSE Min(last'.arg, Cardinality(PC_stale_blocks(trie)))
    /\ last'.arg = -1 =>
         /\ Detached = {p \in DOMAIN trie : Evictable(trie, p)}
         /\ PC_stale_blocks(trie') = {}

\* C20: evict_blocks(desired) detaches only trie nodes whose refcount is 0
\* and which are leaves when they are detached (an ancestor only after all
\* its children), returns exactly the block ids of the detached nodes, and
\* returns min(desired, number of evictable blocks) ids; called with no count
\* it removes every evictable block and no other.
C20_EvictOnlyStaleLeaves == [][EvictsStaleLeaves]_vars

\* evict_blocks() took at least two blocks out of the trie and left a node
\* that a sequence has marked
C20_Witness ==
  /\ last.op = "evict_blocks"
  /\ last.arg = -1
  /\ Len(last.evicted) >= 2
  /\ \E p \in DOMAIN trie : refcount(trie, p) > 0

(* ------------------------- claims, continued -------------------------- *)
\* what alloc_block would do in the present state
AllocNow == alloc_block(World(AllocOrder))

\* alloc in the present state: it fails iff nothing is free and nothing is
\* evictable; otherwise it hands out a block that is then not free, taken
\* from the free set without touching the trie when the free set is not
\* empty, and evicted from the trie when it is
AllocOutcome ==
  /\ AllocNow.err \in {"none", "OutOfBlocks"}
  /\ (AllocNow.err = "OutOfBlocks") <=> (free_blocks = {} /\ PC_stale_blocks(trie) = {})
  /\ AllocNow.err = "OutOfBlocks" => (AllocNow.trie = trie /\ AllocNow.free = free_blocks)
  /\ AllocNow.err = "none" =>
       /\ AllocNow.ret \in BlockIds /\ AllocNow.ret \notin AllocNow.free
       /\ free_blocks # {} =>
            /\ AllocNow.evicted = << >> /\ AllocNow.trie = trie
            /\ AllocNow.ret \in free_blocks
            /\ AllocNow.free = free_blocks \ {AllocNow.ret}
       /\ free_blocks = {} =>
            /\ AllocNow.evicted = <<AllocNow.ret>>
            /\ AllocNow.ret \in PC_stale_blocks(trie)
            /\ AllocNow.ret \notin get_all_blocks(AllocNow.trie)

\* a fetch that ended with OutOfBlocks stopped in a state with nothing free
\* and nothing evictable; a fetch that evicted left nothing free but what it
\* freed itself
AllocSeenInFetch ==
  /\ (last.op = "fetch" /\ last.err = "OutOfBlocks")
       => (free_blocks = {} /\ PC_stale_blocks(trie) = {})
  /\ (last.op = "fetch" /\ Len(last.evicted) > 0)
       => free_blocks \subseteq Range(last.freed)

\* C21: alloc fails with OutOfBlocks only where the free set is empty and the
\* trie has no evictable block; in every other state it succeeds, and it
\* evicts from the trie only when the free set is empty.
C21_AllocFailsOnlyWhenExhausted == AllocOutcome /\ AllocSeenInFetch

\* a fetch ran out of blocks while the trie held a block in use
C21_Witness ==
  /\ last.op = "fetch" /\ last.err = "OutOfBlocks"
  /\ \E p \in DOMAIN trie : refcount(trie, p) > 0

\* one fetch call for one sequence, made after whatever call came before
FetchCall(w, s, prompt, num_steps) ==
  Paged_fetch_one([w EXCEPT !.err = "none", !.now = @ + 1], s, prompt, num_steps)

\* fetch(a) and then fetch(b), from the present state; errs keeps how each of
\* the two calls ended
FetchBoth(a, pa, ka, b, pb, kb) ==
  Let(FetchCall(World(AllocOrder), a, pa, ka), LAMBDA w1 :
    Let(FetchCall(w1, b, pb, kb), LAMBDA w2 :
      [w |-> w2, errs |-> (a :> w1.err) @@ (b :> w2.err)]))

\* sequence s is claimed and idle: no fetch outstanding, nothing pending
Idle(s) ==
  /\ s \in ActiveSeqs /\ s \in DOMAIN pc_requests /\ s \in DOMAIN cache_lengths
  /\ s \notin DOMAIN fetch_metadata
  /\ validate_indices(Meta(s))
  /\ Meta(s).cached_idx = Meta(s).seq_len

\* the two outcomes agree: how each call ended, the four indices of every
\* sequence, the trie's nodes with their blocks and users, the counters and
\* the size of the free set
SameOutcome(x, y) ==
  /\ x.errs = y.errs
  /\ \A s \in DOMAIN x.w.meta :
       /\ x.w.meta[s].committed_idx = y.w.meta[s].committed_idx
       /\ x.w.meta[s].cached_idx = y.w.meta[s].cached_idx
       /\ x.w.meta[s].inflight_idx = y.w.meta[s].inflight_idx
       /\ x.w.meta[s].seq_len = y.w.meta[s].seq_len
  /\ DOMAIN x.w.trie = DOMAIN y.w.trie
  /\ \A p \in DOMAIN x.w.trie :
       /\ x.w.trie[p].block = y.w.trie[p].block
       /\ x.w.trie[p].seqs = y.w.trie[p].seqs
  /\ x.w.hit = y.w.hit /\ x.w.all = y.w.all /\ x.w.cow = y.w.cow
  /\ Cardinality(x.w.free) = Cardinality(y.w.free)

Unforced(x) ==
  /\ \A s \in DOMAIN x.errs : x.errs[s] = "none"
  /\ Len(x.w.evicted) = 0

ProbeLen(s) == active_requests'[s].inflight_idx - Meta(s).committed_idx - 1

\* the prefix blocks the fetch took from the trie for sequence s
ReusedBlocks(s) ==
  Len(committed_blocks(active_requests'[s])) - Len(committed_blocks(Meta(s)))

RECURSIVE HitsOver(_)
HitsOver(ids) ==
  IF Len(ids) = 0 THEN 0
  ELSE (IF ProbeLen(ids[1]) > 0 THEN page_size * ReusedBlocks(ids[1]) ELSE 0)
       + HitsOver(Tail(ids))

RECURSIVE ProbesOver(_)
ProbesOver(ids) ==
  IF Len(ids) = 0 THEN 0
  ELSE (IF ProbeLen(ids[1]) > 0 THEN ProbeLen(ids[1]) ELSE 0)
       + ProbesOver(Tail(ids))

FetchCounts ==
  /\ Succeeds("fetch") =>
       /\ cache_hit_tokens' = cache_hit_tokens + HitsOver(last'.ids)
       /\ all_tokens' = all_tokens + ProbesOver(last'.ids)
       /\ \A s \in Named : ProbeLen(s) <= 0 => ReusedBlocks(s) = 0
  /\ (Raises("fetch", "OutOfBlocks") /\ Len(last'.ids) = 1) =>
       /\ cache_hit_tokens' = cache_hit_tokens + HitsOver(last'.ids)
       /\ all_tokens' = all_tokens + ProbesOver(last'.ids)
  /\ last'.op # "fetch" =>
       (cache_hit_tokens' = cache_hit_tokens /\ all_tokens' = all_tokens)

\* C23: cache_hit_tokens never exceeds all_tokens, and every fetch whose
\* probe is not empty adds page_size times the number of reused prefix blocks
\* to cache_hit_tokens and the length of the probe to all_tokens; nothing
\* else moves the counters.
C23_HitCounters ==
  [](cache_hit_tokens <= all_tokens) /\ [][FetchCounts]_vars

C23_Witness ==
  /\ last.op = "fetch" /\ last.err = "none"
  /\ cache_hit_tokens = page_size /\ all_tokens > cache_hit_tokens
  /\ \E s \in ActiveSeqs : Meta(s).committed_idx = page_size /\ s \in Range(last.ids)

IncrementLeavesManager ==
  last'.op = "increment_cache_lengths" =>
    UNCHANGED <<cache_lengths, fetch_metadata, available, active_requests,
                pc_requests, trie, free_blocks, cache_hit_tokens, all_tokens,
                cow_count, page_size>>

\* the step that closes an episode sets the host cache length from what the
\* fetch recorded, however many increments were made in between
StepAfterIncrements ==
  (last.op = "increment_cache_lengths" /\ Succeeds("step")) =>
    \A s \in Named :
      cache_lengths'[s] = cache_lengths[s] + Len(fetch_metadata[s].prompt)
                          + fetch_metadata[s].num_steps - 1

\* C24: increment_cache_lengths, called any number of times between a fetch
\* and its step, changes no manager state: the cache lengths, the fetch
\* metadata, the available set, the metadata of the sequences, the trie and
\* the free set stay as they are.
C24_IncrementFrame == [][IncrementLeavesManager /\ StepAfterIncrements]_vars

\* the second increment of an episode that is still open
C24_Witness ==
  /\ last.op = "increment_cache_lengths" /\ last.arg = 2
  /\ Len(last.ids) = 2
  /\ \A s \in Range(last.ids) :
       s \in DOMAIN fetch_metadata /\ Len(Meta(s).blocks) > 0

U32Val(x) == x[1] * U32Half + x[2]

\* the inputs in last.ret are those of the model invocation number Invocation
EpisodeOpen == last.op \in {"fetch", "increment_cache_lengths"} /\ last.err = "none"

Invocation == IF last.op = "fetch" THEN 1 ELSE last.arg + 1

\* tokens of sequence s that the invocation processes
Processed(s) == IF Invocation = 1 THEN Len(fetch_metadata[s].prompt) ELSE 1

DeviceTracksHost ==
  EpisodeOpen =>
    \A j \in 1 .. Len(last.ids) : \A d \in 1 .. NumDevices :
      LET s == last.ids[j]
          c == cache_lengths[s]
          p == Len(fetch_metadata[s].prompt)
          k == fetch_metadata[s].num_steps
      IN Invocation <= k =>
           /\ U32Val(last.ret[d].cache_lengths[j]) + Processed(s) = c + p + Invocation - 1
           /\ Len(last.ret[d].max_lengths) = k - Invocation + 1

ClosingStepAgrees ==
  (EpisodeOpen /\ Succeeds("step") /\ last'.ids = last.ids) =>
    \A j \in 1 .. Len(last.ids) : \A d \in 1 .. NumDevices :
      LET s == last.ids[j]
      IN Invocation = fetch_metadata[s].num_steps =>
           /\ cache_lengths'[s] = U32Val(last.ret[d].cache_lengths[j]) + Processed(s)
           /\ cache_lengths'[s] = cache_lengths[s] + Len(fetch_metadata[s].prompt)
                                  + fetch_metadata[s].num_steps - 1

IncrMaxCalls == 2

U32Samples == {ToU32(0), ToU32(U32Half - 1), <<U32Half - 1, U32Half - 1>>}

OffsetSamples == {ToU32(0), ToU32(1), <<U32Half - 1, U32Half - 1>>}

IncrInputs ==
  UNION {{[d \in 1 .. NumDevices |->
             [blocks |-> d,
              cache_lengths |-> c[d],
              lookup_table |-> [i \in 1 .. n |-> <<i - 1, d>>],
              max_lengths |-> [i \in 1 .. r |-> <<ToU32(1), ToU32(i)>>]]] :
            c \in [1 .. NumDevices -> [1 .. n -> U32Samples]],
            r \in 0 .. MaxNumSteps} :
         n \in 1 .. MaxBatchSize}

IncrOffsets == UNION {[1 .. (n + 1) -> OffsetSamples] : n \in 1 .. MaxBatchSize}

IncrInit ==
  /\ page_size = PageSize
  /\ available = SeqIds
  /\ cache_lengths = EmptyMap
  /\ fetch_metadata = EmptyMap
  /\ active_requests = EmptyMap
  /\ pc_requests = EmptyMap
  /\ trie = EmptyMap
  /\ free_blocks = BlockIds
  /\ cache_hit_tokens = 0
  /\ all_tokens = 0
  /\ cow_count = 0
  /\ clock = 0
  /\ last \in {[op |-> "init", kv_cache_inputs |-> x,
                prev_model_inputs |-> [input_row_offsets |-> << >>], ret |-> x] :
               x \in IncrInputs}

\* ret = increment_cache_lengths(kv_cache_inputs, prev_model_inputs), called
\* on what the call before returned
IncrApply(prev_model_inputs) ==
  /\ clock < IncrMaxCalls
  /\ Len(prev_model_inputs.input_row_offsets) = Len(last.ret[1].cache_lengths) + 1
  /\ clock' = clock + 1
  /\ last' = [op |-> "increment_cache_lengths", kv_cache_inputs |-> last.ret,
              prev_model_inputs |-> prev_model_inputs,
              ret |-> increment_cache_lengths(last.ret, prev_model_inputs)]
  /\ UNCHANGED <<page_size, available, cache_lengths, fetch_metadata, active_requests,
                 pc_requests, trie, free_blocks, cache_hit_tokens, all_tokens,
                 cow_count>>

IncrNext == \E offsets \in IncrOffsets : IncrApply([input_row_offsets |-> offsets])

IncrementSpec == IncrInit /\ [][IncrNext]_vars

IsU32(x) == x[1] \in 0 .. (U32Half - 1) /\ x[2] \in 0 .. (U32Half - 1)

\* out = cache_length + (right - left) modulo 2^32, said without a
\* subtraction: out is a uint32 and out + left = cache_length + right
IncrementedRow(out, cache_length, left, right) ==
  /\ IsU32(out)
  /\ U32Add(out, left) = U32Add(cache_length, right)
  /\ (cache_length[1] = 0 /\ left[1] = 0 /\ right[1] = 0 /\ left[2] <= right[2]
        /\ cache_length[2] + right[2] - left[2] < U32Half)
       => out = <<0, cache_length[2] + right[2] - left[2]>>

\* C26: the ragged increment returns, for every device and batch row i,
\* cache_lengths[i] + (input_row_offsets[i+1] - input_row_offsets[i]) as
\* unsigned 32-bit values, returns max_lengths without its first row, and
\* passes blocks and lookup_table through unchanged.
C26_RaggedIncrement ==
  last.op = "increment_cache_lengths" =>
    \A d \in 1 .. NumDevices :
      LET in == last.kv_cache_inputs[d]
          out == last.ret[d]
          offsets == last.prev_model_inputs.input_row_offsets
      IN /\ Len(last.ret) = NumDevices
         /\ Len(out.cache_lengths) = Len(in.cache_lengths)
         /\ \A i \in 1 .. Len(in.cache_lengths) :
              IncrementedRow(out.cache_lengths[i], in.cache_lengths[i],
                             offsets[i], offsets[i + 1])
         /\ Len(out.max_lengths) = Max(0, Len(in.max_lengths) - 1)
         /\ \A i \in 1 .. Len(out.max_lengths) :
              out.max_lengths[i] = last.kv_cache_inputs[1].max_lengths[i + 1]
         /\ out.blocks = in.blocks
         /\ out.lookup_table = in.lookup_table

\* an increment of two rows on two devices, one row wrapping around from
\* 2^32 - 1 to 0, with a row of max_lengths left
C26_Witness ==
  /\ last.op = "increment_cache_lengths"
  /\ Len(last.ret[1].cache_lengths) = 2
  /\ last.kv_cache_inputs[1].cache_lengths # last.kv_cache_inputs[2].cache_lengths
  /\ \E i \in 1 .. 2 :
       /\ last.kv_cache_inputs[1].cache_lengths[i] = <<U32Half - 1, U32Half - 1>>
       /\ last.ret[1].cache_lengths[i] = ToU32(0)
  /\ Len(last.ret[1].max_lengths) = 1

(* ------------------------- claims, page sizes ------------------------- *)
\* the sequences a fetch got to before it ended
Reached ==
  IF last.err = "none" THEN Range(last.ids)
  ELSE IF Len(last.ids) > 0 THEN {last.ids[1]} ELSE {}

\* C27: after the prefix-cache part of every fetch - full-block hits and copy
\* on write, with or without a partial block already there - cached_idx is
\* below inflight_idx: the prompt left for the model is never empty.
PromptLeft ==
  (last.op = "fetch" /\ last.err \in {"none", "OutOfBlocks"}) =>
    \A s \in Reached :
      /\ Meta(s).cached_idx < Meta(s).inflight_idx
      /\ Len(prompt_tokens(Meta(s))) > 0

\* no assertion of the prefix cache fails in a fetch of sequences whose
\* indices were in order
FetchAssertsHold ==
  (last'.op = "fetch"
     /\ \A s \in Named : s \in ActiveSeqs /\ s \in DOMAIN pc_requests
                            /\ validate_indices(Meta(s)))
    => last'.err # "Assertion"

C27_PromptNeverEmpty == [](PromptLeft) /\ [][FetchAssertsHold]_vars

\* a fetch that replaced a partial block by a copy
C27_Witness ==
  /\ last.op = "fetch" /\ last.err = "none" /\ Len(last.freed) > 0
  /\ last.cow.n = 1 /\ page_size = 3

\* the step is a fetch of sequence s alone that copied on write
CowFetch(s) ==
  /\ last'.op = "fetch" /\ last'.ids = <<s>> /\ last'.err \in {"none", "OutOfBlocks"}
  /\ last'.cow.n = 1
  /\ s \in ActiveSeqs /\ s \in DOMAIN pc_requests

\* the probe of the copy: up to page_size of the tokens after the committed
\* ones, the last prompt token left out
CowProbe(s) ==
  Slice(Slice(active_requests'[s].tokens, active_requests'[s].committed_idx,
              active_requests'[s].inflight_idx - 1), 0, page_size)

\* the longest prefix that the probe shares with an edge below the node of s
BestPartialMatch(s) ==
  MaxOver({0} \cup {CommonPrefixLen(EdgeOf(c), CowProbe(s)) :
                      c \in Children(trie, pc_requests'[s])})

CowTakesOneBlock ==
  \A s \in SeqIds :
    CowFetch(s) =>
      LET d == active_requests'[s]
          k == BestPartialMatch(s)
          at == (d.committed_idx \div page_size) + 1
          dst == last'.cow.dst
      IN /\ 0 < k /\ k < page_size
         /\ d.cached_idx = d.committed_idx + k
         \* the copy is the block after the committed ones, a block that was
         \* free, was evicted for it, or is the partial block just released
         /\ Len(d.blocks) >= at /\ d.blocks[at] = dst
         /\ dst \in free_blocks \cup Range(last'.evicted) \cup Range(last'.freed)
         /\ dst \notin free_blocks'
         /\ Cardinality({i \in 1 .. Len(d.blocks) : d.blocks[i] = dst}) = 1
         \* it belongs to s alone and is not in the trie
         /\ dst \notin get_all_blocks(trie')
         /\ \A t \in DOMAIN active_requests' \ {s} :
              dst \notin Range(active_requests'[t].blocks)
         \* the committed part and the node move by the full-block hits only
         /\ d.committed_idx = Len(pc_requests'[s])
         /\ pc_requests'[s] = Slice(d.tokens, 0, d.committed_idx)
         /\ cache_hit_tokens' = cache_hit_tokens =>
              (d.committed_idx = Meta(s).committed_idx
                 /\ pc_requests'[s] = pc_requests[s])
         /\ cow_count' = cow_count + 1

\* C28: a copy on write with a partial match of k tokens, 0 < k < page_size,
\* allocates exactly one fresh block and appends it as the sequence's last
\* block, sets cached_idx to committed_idx + k, leaves committed_idx and the
\* current node as they were, adds one to cow_count, and does not insert the
\* block into the trie: it is owned by that sequence alone.
C28_CowBlock == [][CowTakesOneBlock]_vars

\* a copy of two tokens of a page of three
C28_Witness ==
  /\ last.op = "fetch" /\ last.err = "none" /\ Len(last.ids) = 1 /\ last.cow.n = 1
  /\ page_size = 3
  /\ Meta(last.ids[1]).cached_idx = Meta(last.ids[1]).committed_idx + 2
  /\ last.cow.dst \in Range(Meta(last.ids[1]).blocks)

\* the step is a fetch of sequence s alone, which was idle with t cached
\* tokens in an uncommitted partial block, and the fetch had no full-block hit
PartialFetch(s) ==
  /\ last'.op = "fetch" /\ last'.ids = <<s>> /\ last'.err \in {"none", "OutOfBlocks"}
  /\ last.err \notin Fatal /\ Idle(s)
  /\ Meta(s).committed_idx < Meta(s).cached_idx
  /\ Len(Meta(s).blocks) = (Meta(s).committed_idx \div page_size) + 1
  /\ cache_hit_tokens' = cache_hit_tokens

CowAgainstPartial ==
  \A s \in SeqIds :
    PartialFetch(s) =>
      LET d == Meta(s)
          e == active_requests'[s]
          t == d.cached_idx - d.committed_idx
          k == BestPartialMatch(s)
          old == d.blocks[Len(d.blocks)]
      IN IF k <= t
           THEN /\ last'.cow.n = 0 /\ last'.cow.dst = -1
                /\ last'.freed = << >>
                /\ e.cached_idx = d.cached_idx
                /\ Slice(e.blocks, 0, Len(d.blocks)) = d.blocks
           ELSE /\ last'.cow.n = 1
                /\ last'.freed = <<old>>
                /\ e.cached_idx = d.committed_idx + k /\ e.cached_idx > d.cached_idx
                /\ e.blocks[Len(d.blocks)] = last'.cow.dst
                \* the release comes first: the copy's block is handed out
                \* by a pool that holds the released block already
                /\ last'.cow.dst = PickBlock(free_blocks \cup {old}, AllocOrder)
                /\ Cardinality({i \in 1 .. Len(e.blocks) : e.blocks[i] = old}) <= 1

\* C29: when the sequence has an uncommitted partial block holding t cached
\* tokens and the best partial match is k <= t, copy on write does nothing:
\* nothing is freed or allocated for it, cached_idx, the blocks and cow_count
\* stay. When k > t the old partial block is freed exactly once, before the
\* replacement is allocated, and cached_idx strictly increases.
C29_CowAgainstPartial == [][CowAgainstPartial]_vars

\* a copy of two tokens replaced a partial block of one, and went into the
\* block that was released for it
C29_Witness ==
  /\ last.op = "fetch" /\ last.err = "none" /\ Len(last.ids) = 1
  /\ last.cow.n = 1 /\ last.freed = <<last.cow.dst>>
  /\ Meta(last.ids[1]).cached_idx = Meta(last.ids[1]).committed_idx + 2

NoCowAtOne ==
  page_size = 1 => (cow_count = 0 /\ last.cow.n = 0 /\ last.cow.dst = -1)

\* the step is a fetch of the idle sequence s alone, with pages of one token
OneTokenFetch(s) ==
  /\ page_size = 1
  /\ last'.op = "fetch" /\ last'.ids = <<s>> /\ last'.err \in {"none", "OutOfBlocks"}
  /\ last.err \notin Fatal /\ Idle(s)

\* the prompt of the fetch but its last token
PromptButLast(s) ==
  Slice(active_requests'[s].tokens, Meta(s).inflight_idx,
        active_requests'[s].inflight_idx - 1)

\* number of leading tokens of toks that continue the committed path of s
SharedPrefix(s, toks) ==
  MaxOver({n \in 0 .. Len(toks) :
             \A j \in 1 .. n : (pc_requests[s] \o SubSeq(toks, 1, j)) \in DOMAIN trie})

ReusesPerToken ==
  \A s \in SeqIds :
    OneTokenFetch(s) =>
      LET d == Meta(s)
          e == active_requests'[s]
          n == SharedPrefix(s, PromptButLast(s))
      IN /\ e.committed_idx = d.committed_idx + n
         /\ e.cached_idx = d.cached_idx + n
         /\ cache_hit_tokens' = cache_hit_tokens + n
         /\ Len(e.blocks) >= Len(d.blocks) + n
         /\ \A j \in 1 .. n :
              e.blocks[Len(d.blocks) + j] =
                trie[pc_requests[s] \o SubSeq(PromptButLast(s), 1, j)].block
         /\ e.cached_idx < e.inflight_idx

\* C30: with page_size = 1 no copy on write ever happens - cow_count stays 0
\* and no copy is issued - while a fetch whose prompt shares a committed
\* prefix still reuses the committed blocks, one block per token, for all but
\* the last token of the prompt.
C30_OneTokenPages == [](NoCowAtOne) /\ [][ReusesPerToken]_vars

\* a prompt of three tokens reused the two blocks of its first two tokens
C30_Witness ==
  /\ page_size = 1 /\ last.op = "fetch" /\ last.err = "none" /\ Len(last.ids) = 1
  /\ cache_hit_tokens = 2
  /\ Meta(last.ids[1]).committed_idx = 2 /\ Meta(last.ids[1]).inflight_idx = 3
  /\ \A i \in 1 .. 2 : Meta(last.ids[1]).blocks[i] \in get_all_blocks(trie)

(* ---------------------- claims, single operations --------------------- *)
\* the step is a fetch, for the idle sequence s alone, of a prompt of one token
OneTokenPrompt(s) ==
  /\ last'.op = "fetch" /\ last'.ids = <<s>> /\ last'.err \in {"none", "OutOfBlocks"}
  /\ last.err \notin Fatal /\ Idle(s)
  /\ active_requests'[s].inflight_idx = Meta(s).inflight_idx + 1

\* the prefix cache reused nothing, copied nothing and moved no index of s
NothingReused(s) ==
  /\ active_requests'[s].committed_idx = Meta(s).committed_idx
  /\ active_requests'[s].cached_idx = Meta(s).cached_idx
  /\ committed_blocks(active_requests'[s]) = committed_blocks(Meta(s))
  /\ Slice(active_requests'[s].blocks, 0, Len(Meta(s).blocks)) = Meta(s).blocks
  /\ pc_requests'[s] = pc_requests[s]
  /\ last'.cow.n = 0 /\ last'.cow.dst = -1 /\ last'.freed = << >>
  /\ \A p \in DOMAIN trie' :
       p \in DOMAIN trie /\ trie'[p].seqs = trie[p].seqs /\ trie'[p].block = trie[p].block
  /\ cache_hit_tokens' = cache_hit_tokens

\* C31 as stated: for a fetch whose prompt has length 1, in any state of the
\* sequence, the probe is empty: nothing is reused or copied, committed_idx
\* and cached_idx stay, and cache_hit_tokens and all_tokens are unchanged.
C31_OneTokenProbeEmpty ==
  [][\A s \in SeqIds :
       OneTokenPrompt(s) => (NothingReused(s) /\ all_tokens' = all_tokens)]_vars

\* C31 (amended): for a fetch whose prompt has length 1 nothing is reused or
\* copied, committed_idx and cached_idx stay and cache_hit_tokens is
\* unchanged; the probe holds the t tokens of the sequence's uncommitted
\* partial block, so all_tokens grows by t, and is unchanged only when the
\* sequence has no partial block.
C31_OneTokenNothingReused ==
  [][\A s \in SeqIds :
       OneTokenPrompt(s) =>
         /\ NothingReused(s)
         /\ all_tokens' = all_tokens + (Meta(s).cached_idx - Meta(s).committed_idx)]_vars

\* a prompt of one token fetched on top of a partial block, next to a trie
\* edge that begins with the block's tokens
C31_Witness ==
  /\ last.op = "fetch" /\ last.err = "none" /\ Len(last.ids) = 1
  /\ Len(fetch_metadata[last.ids[1]].prompt) = 1
  /\ Meta(last.ids[1]).inflight_idx = Meta(last.ids[1]).cached_idx + 1
  /\ Meta(last.ids[1]).cached_idx > Meta(last.ids[1]).committed_idx
  /\ \E c \in Children(trie, pc_requests[last.ids[1]]) :
       CommonPrefixLen(EdgeOf(c), committable_tokens(Meta(last.ids[1]))) > 0

\* Fetches for up to LongSteps steps closed by steps whose tokens differ from
\* one another, so that which of a step's tokens land in the placeholder
\* slots can be told.
LongTokens == {<<1, 2>>, <<2, 1>>, <<1, 2, 1>>, <<2, 1, 2>>}

LongNext ==
  \/ Next
  \/ \E s \in SeqIds, prompt \in Prompts : Fetch(<< <<s, prompt>> >>, LongSteps, AllocOrder)
  \/ \E s \in SeqIds, new_tokens \in LongTokens : Step(<< <<s, new_tokens>> >>)

LongSpec == Init /\ [][LongNext]_vars

\* the step is the successful fetch(batch, num_steps)
FetchOf(batch, num_steps) ==
  /\ Succeeds("fetch") /\ last'.ids = BatchIds(batch) /\ last'.arg = num_steps
  /\ Fetch(batch, num_steps, AllocOrder)

\* the step is the successful step(batch)
StepOf(batch) ==
  /\ Succeeds("step") /\ last'.ids = BatchIds(batch)
  /\ Step(batch)

\* what the fetch of prompt for num_steps steps leaves of sequence s
PlaceholdersOpened(s, prompt, num_steps) ==
  /\ active_requests'[s].seq_len - active_requests'[s].inflight_idx = num_steps - 1
  /\ active_requests'[s].inflight_idx = Meta(s).inflight_idx + Len(prompt)
  /\ active_requests'[s].seq_len = Meta(s).seq_len + Len(prompt) + num_steps - 1

\* the step fills the placeholder slots of s with all but the last of its
\* tokens and writes no other slot
PlaceholdersFilled(s, new_tokens) ==
  /\ Len(new_tokens) = fetch_metadata[s].num_steps
  /\ Meta(s).seq_len - Meta(s).inflight_idx = Len(new_tokens) - 1
  /\ Slice(active_requests'[s].tokens, Meta(s).inflight_idx, Meta(s).seq_len)
       = Slice(new_tokens, 0, Len(new_tokens) - 1)
  /\ \A i \in 1 .. Len(Meta(s).tokens) :
       (i <= Meta(s).inflight_idx \/ i > Meta(s).seq_len)
         => active_requests'[s].tokens[i] = Meta(s).tokens[i]

FetchOpensPlaceholders ==
  \A batch \in Batches(Prompts), num_steps \in 1 .. LongSteps :
    FetchOf(batch, num_steps) =>
      \A i \in 1 .. Len(batch) : PlaceholdersOpened(batch[i][1], batch[i][2], num_steps)

StepFillsPlaceholders ==
  \A batch \in Batches(NewTokens \cup LongTokens) :
    StepOf(batch) =>
      \A i \in 1 .. Len(batch) : PlaceholdersFilled(batch[i][1], batch[i][2])

\* C32: after every successful fetch(prompt, num_steps) the sequence has
\* exactly num_steps - 1 inflight placeholder slots, inflight_idx has grown
\* by len(prompt) and seq_len by len(prompt) + num_steps - 1, and the
\* placeholders are filled by exactly the first num_steps - 1 tokens of the
\* step that follows.
C32_InflightPlaceholders == [][FetchOpensPlaceholders /\ StepFillsPlaceholders]_vars

\* a step of three tokens has filled two placeholder slots with different
\* tokens and the sequence's two pages are committed to the trie
C32_Witness ==
  /\ Succeeded("step") /\ Len(last.ids) = 1
  /\ Meta(last.ids[1]).seq_len = 4
  /\ Meta(last.ids[1]).tokens[3] # Meta(last.ids[1]).tokens[4]
  /\ Meta(last.ids[1]).committed_idx = 4
  /\ trie # EmptyMap

(* ------------------------- claims, the trie path ---------------------- *)
\* the tokens and the blocks read from the root down to node
PathTokens(node) == node

PathOnTrie(node) ==
  \A i \in 1 .. Len(node) \div page_size : Slice(node, 0, i * page_size) \in DOMAIN trie

PathBlocks(node) ==
  [i \in 1 .. Len(node) \div page_size |-> trie[Slice(node, 0, i * page_size)].block]

\* PrefixCache.validate_req_state_valid for the sequence s
ReqStateValid(s) ==
  /\ s \in DOMAIN pc_requests
  /\ Len(pc_requests[s]) % page_size = 0
  /\ PathOnTrie(pc_requests[s])
  /\ PathTokens(pc_requests[s]) = committed_tokens(Meta(s))
  /\ PathBlocks(pc_requests[s]) = committed_blocks(Meta(s))

\* C33: for every active sequence, in every state between public
\* operations, the tokens and the blocks read along the trie path from the
\* root to the sequence's current node are exactly tokens[:committed_idx]
\* and blocks[:committed_idx / page_size].
C33_PathIsCommitted == \A s \in ActiveSeqs : ReqStateValid(s)

\* a fetch had to evict a block while an active sequence had a committed
\* page in the trie, which is still on its path
C33_Witness ==
  /\ last.op = "fetch" /\ last.err = "none" /\ last.evicted # << >>
  /\ \E s \in ActiveSeqs :
       /\ Meta(s).committed_idx > 0
       /\ pc_requests[s] # Root

\* c and p are children of one node and their edges begin with the same token
SameFirstToken(c, p) ==
  /\ Len(c) = Len(p) /\ Len(p) >= page_size /\ c # p
  /\ SubSeq(c, 1, Len(c) - page_size + 1) = SubSeq(p, 1, Len(p) - page_size + 1)

SiblingsDifferByPage ==
  \A c \in DOMAIN trie, p \in DOMAIN trie :
    c # p =>
      /\ trie[c].block # trie[p].block
      /\ (Len(c) = Len(p) /\ Slice(c, 0, Len(c) - page_size) = Slice(p, 0, Len(p) - page_size))
           => EdgeOf(c) # EdgeOf(p)

\* the page p is inserted next to a sibling c that begins with the same
\* token: both end up attached, c with the block it had, p with the block of
\* the stepping sequence's page, and neither block is free
SiblingInsertKeepsBoth ==
  \A c \in DOMAIN trie, p \in DOMAIN trie' :
    (p \notin DOMAIN trie /\ SameFirstToken(c, p)) =>
      /\ c \in DOMAIN trie' /\ trie'[c].block = trie[c].block
      /\ trie'[p].block # trie[c].block
      /\ {trie'[p].block, trie[c].block} \cap free_blocks' = {}
      /\ \E s \in Named :
           /\ IsPrefix(p, pc_requests'[s])
           /\ active_requests'[s].blocks[Len(p) \div page_size] = trie'[p].block
           /\ Meta(s).blocks[Len(p) \div page_size] = trie'[p].block

EvictMaxNodes == 3
EvictTicks == 1 .. 2

NodeSets ==
  {N \in SUBSET PageLists :
     /\ N # {} /\ Cardinality(N) <= EvictMaxNodes
     /\ \A p \in N : Len(p) > page_size => Slice(p, 0, Len(p) - page_size) \in N}

EvictTries ==
  UNION {{t \in [N -> [block : TrieBlockIds, seqs : SUBSET {0}, tick : EvictTicks]] :
            /\ \A p \in N, q \in N : p # q => t[p].block # t[q].block
            /\ \A p \in N, q \in N : IsPrefix(p, q) => t[q].seqs \subseteq t[p].seqs} :
         N \in NodeSets}

EvictInit ==
  /\ page_size = PageSize
  /\ available = SeqIds
  /\ cache_lengths = EmptyMap
  /\ fetch_metadata = EmptyMap
  /\ active_requests = EmptyMap
  /\ pc_requests = EmptyMap
  /\ trie \in EvictTries
  /\ free_blocks = TrieBlockIds \ get_all_blocks(trie)
  /\ cache_hit_tokens = 0
  /\ all_tokens = 0
  /\ cow_count = 0
  /\ clock = 0
  /\ last = NoCall

EvictNext == \E n \in {-1} \cup (1 .. EvictMaxNodes) : TrieEvict(n)

EvictSpec == EvictInit /\ [][EvictNext]_vars

\* the trie without the nodes of the blocks in gone
Without(t, gone) ==
  [p \in {q \in DOMAIN t : t[q].block \notin gone} |-> t[p]]

\* node p is the least recently used evictable leaf of t, the one with the
\* lowest block id among the equally stale ones
OldestLeaf(t, p) ==
  /\ p \in EvictCandidates(t)
  /\ \A q \in EvictCandidates(t) :
       \/ t[p].tick < t[q].tick
       \/ (t[p].tick = t[q].tick /\ t[p].block <= t[q].block)

\* each block of the list e belonged to the oldest leaf of t once the blocks
\* before it were gone
InLRUOrder(t, e) ==
  \A i \in 1 .. Len(e) :
    \E p \in DOMAIN t :
      /\ t[p].block = e[i]
      /\ OldestLeaf(Without(t, {e[j] : j \in 1 .. (i - 1)}), p)

EvictsInLRUOrder ==
  last'.op = "evict_blocks" =>
    /\ InLRUOrder(trie, last'.evicted)
    /\ \A e \in SeqsOf(TrieBlockIds, Len(last'.evicted), Len(last'.evicted)) :
         InLRUOrder(trie, e) => e = last'.evicted

IndicesGrow(s) ==
  /\ active_requests'[s].committed_idx >= Meta(s).committed_idx
  /\ active_requests'[s].cached_idx >= Meta(s).cached_idx
  /\ active_requests'[s].inflight_idx >= Meta(s).inflight_idx
  /\ active_requests'[s].seq_len >= Meta(s).seq_len

\* the tokens of s below inflight_idx are the same after the step
TokensKept(s) ==
  \A i \in 1 .. Meta(s).inflight_idx :
    i <= Len(Meta(s).tokens) => active_requests'[s].tokens[i] = Meta(s).tokens[i]

FetchAndStepGrow ==
  last'.op \in {"fetch", "step"} =>
    \A s \in ActiveSeqs : s \in DOMAIN active_requests' /\ IndicesGrow(s) /\ TokensKept(s)

\* C36: across every fetch (release of a partial block and copy on write
\* included) and every step, none of committed_idx, cached_idx, inflight_idx
\* and seq_len of an active sequence is smaller after than before, and the
\* tokens at positions below inflight_idx are never changed once written.
C36_IndicesMonotone == [][FetchAndStepGrow]_vars

\* a fetch gave up the sequence's partial block for a copy of a longer
\* prefix: cached_idx went down by the partial tokens and up by the copied
\* ones
C36_Witness ==
  /\ last.op = "fetch" /\ last.err = "none" /\ Len(last.ids) = 1
  /\ last.freed # << >> /\ last.cow.n = 1
  /\ Meta(last.ids[1]).cached_idx - Meta(last.ids[1]).committed_idx = 2

(* --------------------------- claims, claiming ------------------------- *)
\* a claim or external_claim that fails leaves the ids as they were
FailedClaimTakesNothing ==
  (last'.op \in {"claim", "external_claim"} /\ last'.err # "none") =>
    /\ available' = available
    /\ cache_lengths' = cache_lengths
    /\ pc_requests' = pc_requests

\* C37: a claim that cannot be satisfied in full fails without claiming
\* anything: claim(n) with n greater than the number of available ids, and
\* external_claim with a list containing an id that is not free, leave the
\* available set, cache_length and the prefix cache's cursor map exactly as
\* they were.
C37_FailedClaimAtomic == [][FailedClaimTakesNothing]_vars

(* ------------------------- claims, cache lengths ---------------------- *)
\* after a successful step the host's cache length of each sequence stepped
\* is the number of its tokens with projections in its blocks
StepAgreesWithCached ==
  Succeeds("step") =>
    \A s \in Named :
      /\ active_requests'[s].cached_idx = active_requests'[s].seq_len
      /\ cache_lengths'[s] = active_requests'[s].cached_idx

\* the cache_lengths row a successful fetch hands to the kernel is the number
\* of tokens the sequence had cached before the fetch
FetchHandsCached ==
  Succeeds("fetch") =>
    \A i \in 1 .. Len(last'.ids) :
      Idle(last'.ids[i]) =>
        U32Val(last'.ret[1].cache_lengths[i]) = Meta(last'.ids[i]).cached_idx

\* C38: whenever a claimed sequence has no outstanding fetch, cache_length[s]
\* equals the number of tokens of s with KV projections in its blocks
\* (cached_idx, which is seq_len after a step), also after episodes in which
\* the fetch reused prefix-cache or copied blocks and recorded the trimmed
\* prompt; hence the cache_lengths row handed to the kernel at the next fetch
\* matches the sequence's cached tokens.
C38_CacheLengthIsCached == [][StepAgreesWithCached /\ FetchHandsCached]_vars

(* ------------------------ claims, longer runs ------------------------- *)
\* The manager after construction with room for DeepOps operations on the
\* prompts that share a first token: a page committed and released, a block
\* held by a second sequence, and a third fetch that finds the pool empty.
DeepOps == 6

DeepPrompts == {<<1, 1>>, <<1, 2>>, <<2>>}

DeepInit ==
  /\ page_size = PageSize
  /\ available = SeqIds
  /\ cache_lengths = EmptyMap
  /\ fetch_metadata = EmptyMap
  /\ active_requests = EmptyMap
  /\ pc_requests = EmptyMap
  /\ trie = EmptyMap
  /\ free_blocks = BlockIds
  /\ cache_hit_tokens = 0
  /\ all_tokens = 0
  /\ cow_count = 0
  /\ clock = MaxOps - DeepOps
  /\ last = [op |-> "init", ids |-> << >>, arg |-> 0, err |-> "none", cow |-> NoCow,
             evicted |-> << >>, freed |-> << >>, ret |-> << >>]

DeepNext ==
  \/ \E n \in 1 .. MaxBatchSize : Claim(n)
  \/ \E ids \in SeqsOf(SeqIds, 1, 2) : ExternalClaim(ids)
  \/ \E batch \in Batches(DeepPrompts) : Fetch(batch, 1, AllocOrder)
  \/ \E batch \in Batches({<<1>>}) : Step(batch)
  \/ \E s \in SeqIds : Release(s)

DeepSpec == DeepInit /\ [][DeepNext]_vars

\* the last operation issued the copy of a block
CopyIssued == last.op = "fetch" /\ last.cow.n > 0

\* C39: at the moment the copy on write is issued the source block is still
\* attached to a trie node (the allocation of the destination has not
\* evicted it, even when the free set was empty and the source's node was an
\* evictable leaf), and the destination block id differs from the source's.
C39_CowSourceStays ==
  CopyIssued => (last.cow.srcin /\ last.cow.dst # last.cow.src)

\* every sequence that was claimed has been released
AllReleased ==
  /\ clock > MaxOps - DeepOps
  /\ ActiveSeqs = {} /\ DOMAIN cache_lengths = {} /\ available = SeqIds

\* what evict_blocks() with no count would return now
FullEviction == PC_evict_blocks(trie, -1)

\* every block is free or attached to one evictable trie node, no node is in
\* use, and evicting everything returns the whole pool
NothingLeaked ==
  /\ \A b \in BlockIds :
       \/ b \in free_blocks /\ b \notin get_all_blocks(trie)
       \/ /\ b \notin free_blocks
          /\ Cardinality({p \in DOMAIN trie : trie[p].block = b}) = 1
          /\ \A p \in DOMAIN trie : trie[p].block = b => Evictable(trie, p)
  /\ \A p \in DOMAIN trie : refcount(trie, p) = 0
  /\ pc_requests = EmptyMap
  /\ FullEviction.trie = EmptyMap
  /\ free_blocks \cup Range(FullEviction.blocks) = BlockIds
  /\ Len(FullEviction.blocks) = Cardinality(BlockIds \ free_blocks)

\* C40: no block leaks: once every active sequence has been released, every
\* block id is either free or attached to an evictable trie node, every trie
\* refcount is 0, and a full eviction (evict_blocks with no count) followed
\* by returning the evicted ids to the pool makes the free set [0, B) and
\* the trie empty.
C40_NoBlockLeaks == AllReleased => NothingLeaked

\* two sequences have come and gone, one of them with a block copied on
\* write; a committed page is left in the trie and the last release freed a
\* block
C40_Witness ==
  /\ AllReleased
  /\ last.op = "release" /\ last.err = "none" /\ last.freed # << >>
  /\ cow_count > 0
  /\ trie # EmptyMap /\ free_blocks # {}

====
